---- MODULE Spec2Model ----
(***************************************************************************)
(* A model of the AI-Proctor backend: the proctoring service with its      *)
(* alert cooldown and AI-verification gate, the frame analyzer, the eye    *)
(* gaze tracker, the audio analyzer and the session table.                 *)
(*                                                                         *)
(* Time is counted in ticks, TicksPerSecond ticks to the second.  Floating *)
(* point quantities are scaled to integers: confidences and SSIM values    *)
(* are percentages, audio energies are thousandths, iris ratios are        *)
(* hundredths, angles are whole degrees.                                   *)
(***************************************************************************)
EXTENDS Integers, Sequences, FiniteSets, TLC

\* ---------------------------------------------------------------- bounds
TicksPerSecond == 2
MaxTime == 8
MaxVerifyDelay == 1
MaxFrameCount == 3
MaxChunks == 5
MaxSkipMod == 2
MaxStream == 4
MaxSessionFrames == 12
MaxAwayStream == 17
MaxAudioCalls == 6
MaxGapFrames == 4
MaxSocketFrames == 2

\* ------------------------------------------------------ program constants
ALERT_COOLDOWN_SECONDS == 3
EYE_GAZE_THRESHOLD == 2
MAX_FACES_ALLOWED == 1
AI_VERIFICATION_CONFIDENCE_THRESHOLD == 70
DEFAULT_CONFIDENCE == 50
ssim_threshold == 95
black_threshold == 30
FRAME_SKIP_MOD == 1
HEAD_ROTATION_THRESHOLD == 25
calibration_frame_count == 10
CELL_PHONE == 67
BOOK == 73

\* -------------------------------------------------------------- optionals
\* Python's None and "a value" as sequences of length 0 and 1.
None == <<>>
Some(x) == <<x>>
IsSome(o) == o # <<>>
Val(o) == o[1]

Abs(x) == IF x < 0 THEN -x ELSE x

SessionIds == {"A", "B"}
FrameAlertTypes == {"multiple_persons", "eyes_looking_away", "prohibited_object"}
AlertTypes == FrameAlertTypes \cup {"black_screen", "audio_anomaly"}

VARIABLES
    clock,              \* time.time(), in ticks
    settings,           \* the Settings object: ENABLE_AI_VERIFICATION, GEMINI_API_KEY set
    last_alert_times,   \* ProctoringService.last_alert_times: key -> time
    session_data,       \* ProctoringService.session_data: session id -> record
    frame_analyzer,     \* the service's FrameAnalyzer: previous_frame, frame_count
    eye_tracker,        \* the service's EyeGazeTracker
    audio_analyzer,     \* the service's AudioAnalyzer
    frame_skip_mod,     \* ProctoringService.frame_skip_mod, the stride passed as skip_mod
    results,            \* what the last operation returned
    calls,              \* the calls the last operation made, in order
    admissions,         \* history: <<session id, type>> -> the violations that passed
                        \* the cooldown check, in order, each with its time, its
                        \* outcome ("alert" or "rejected") and whether a later
                        \* violation was suppressed in its window
    active_connections, \* ConnectionManager.active_connections: session id -> websocket
    handlers            \* websocket -> where its websocket_endpoint coroutine
                        \* stands, and the frame its client has sent

vars == <<clock, settings, last_alert_times, session_data, frame_analyzer,
          eye_tracker, audio_analyzer, frame_skip_mod, results, calls,
          admissions, active_connections, handlers>>

\* The websockets of the clients, and the session id in each one's path.
Websockets == {"w1", "w2", "w3"}
HandlerSession == [w \in Websockets |-> IF w = "w3" THEN "B" ELSE "A"]

\* ------------------------------------------------- alert cooldown
alert_cooldown == ALERT_COOLDOWN_SECONDS * TicksPerSecond

\* key = f"{session_id}_{alert_type}"
CooldownKey(session_id, alert_type) == session_id \o "_" \o alert_type

\* _should_create_alert with the window compared strictly.
ShouldCreateAlertStrict(lat, session_id, alert_type, current_time) ==
    LET key == CooldownKey(session_id, alert_type)
    IN  IF key \notin DOMAIN lat
        THEN [ret |-> TRUE, last_alert_times |-> (key :> current_time) @@ lat]
        ELSE IF current_time - lat[key] > alert_cooldown
        THEN [ret |-> TRUE, last_alert_times |-> [lat EXCEPT ![key] = current_time]]
        ELSE [ret |-> FALSE, last_alert_times |-> lat]

\* _should_create_alert storing the time of the first alert only.
ShouldCreateAlertFirstOnly(lat, session_id, alert_type, current_time) ==
    LET key == CooldownKey(session_id, alert_type)
    IN  IF key \notin DOMAIN lat
        THEN [ret |-> TRUE, last_alert_times |-> (key :> current_time) @@ lat]
        ELSE IF current_time - lat[key] >= alert_cooldown
        THEN [ret |-> TRUE, last_alert_times |-> lat]
        ELSE [ret |-> FALSE, last_alert_times |-> lat]

\* _should_create_alert with a rejected call restarting the window.
ShouldCreateAlertExtend(lat, session_id, alert_type, current_time) ==
    LET key == CooldownKey(session_id, alert_type)
    IN  IF key \notin DOMAIN lat
        THEN [ret |-> TRUE, last_alert_times |-> (key :> current_time) @@ lat]
        ELSE IF current_time - lat[key] >= alert_cooldown
        THEN [ret |-> TRUE, last_alert_times |-> [lat EXCEPT ![key] = current_time]]
        ELSE [ret |-> FALSE, last_alert_times |-> [lat EXCEPT ![key] = current_time]]

\* _should_create_alert without a window.
ShouldCreateAlertAlways(lat, session_id, alert_type, current_time) ==
    LET key == CooldownKey(session_id, alert_type)
    IN  IF key \notin DOMAIN lat
        THEN [ret |-> TRUE, last_alert_times |-> (key :> current_time) @@ lat]
        ELSE [ret |-> TRUE, last_alert_times |-> [lat EXCEPT ![key] = current_time]]

\* _should_create_alert with half the window.
ShouldCreateAlertHalf(lat, session_id, alert_type, current_time) ==
    LET key == CooldownKey(session_id, alert_type)
    IN  IF key \notin DOMAIN lat
        THEN [ret |-> TRUE, last_alert_times |-> (key :> current_time) @@ lat]
        ELSE IF 2 * (current_time - lat[key]) >= alert_cooldown
        THEN [ret |-> TRUE, last_alert_times |-> [lat EXCEPT ![key] = current_time]]
        ELSE [ret |-> FALSE, last_alert_times |-> lat]

\* _should_create_alert keyed by the alert type alone.
ShouldCreateAlertPerType(lat, session_id, alert_type, current_time) ==
    LET key == alert_type
    IN  IF key \notin DOMAIN lat
        THEN [ret |-> TRUE, last_alert_times |-> (key :> current_time) @@ lat]
        ELSE IF current_time - lat[key] >= alert_cooldown
        THEN [ret |-> TRUE, last_alert_times |-> [lat EXCEPT ![key] = current_time]]
        ELSE [ret |-> FALSE, last_alert_times |-> lat]

\* _should_create_alert on the table lat at time current_time: the returned
\* boolean and the table it leaves.
ShouldCreateAlert(lat, session_id, alert_type, current_time) ==
    LET key == CooldownKey(session_id, alert_type)
    IN  IF key \notin DOMAIN lat
        THEN [ret |-> TRUE, last_alert_times |-> (key :> current_time) @@ lat]
        ELSE IF current_time - lat[key] >= alert_cooldown
        THEN [ret |-> TRUE, last_alert_times |-> [lat EXCEPT ![key] = current_time]]
        ELSE [ret |-> FALSE, last_alert_times |-> lat]

\* _create_alert that stamps the alert with the time it is created.
CreateAlertStamped(violation, current_time) ==
    [alert_id |-> <<violation.type, current_time>>,
     type |-> violation.type,
     severity |-> violation.severity,
     message |-> violation.description,
     timestamp |-> current_time,
     requires_attention |-> violation.severity \in {"high", "critical"}]

\* _create_alert: the alert derived from a violation.
CreateAlert(violation, current_time) ==
    [alert_id |-> <<violation.type, current_time>>,
     type |-> violation.type,
     severity |-> violation.severity,
     message |-> violation.description,
     timestamp |-> violation.timestamp,
     requires_attention |-> violation.severity \in {"high", "critical"}]

\* ------------------------------------------------- frame analyzer
\* A frame is a record of what the image processing libraries compute from
\* its pixels: luma (mean grey level), scene (frames of one scene are
\* structurally similar), shape, and the detectors' outputs.
IsBlackScreen(frame) == frame.luma < black_threshold

\* skimage's structural_similarity raises on frames of different shapes and
\* on frames smaller than its 7x7 window; calculate_ssim then returns 0.0.
SsimRaises(frame1, frame2) ==
    frame1.shape # frame2.shape \/ frame1.shape = "tiny"

CalculateSsim(frame1, frame2) ==
    IF SsimRaises(frame1, frame2) THEN 0
    ELSE IF frame1 = frame2 THEN 100
    ELSE IF frame1.scene = frame2.scene THEN 97
    ELSE 40

\* is_duplicate_frame that does not retain the first frame.
IsDuplicateFrameForgetFirst(fa, current_frame) ==
    LET counted == [fa EXCEPT !.frame_count = @ + 1]
    IN  IF fa.previous_frame = None
        THEN [ret |-> FALSE, fa |-> counted]
        ELSE LET similarity == CalculateSsim(Val(fa.previous_frame), current_frame)
                 is_duplicate == similarity > ssim_threshold
             IN  IF is_duplicate
                 THEN [ret |-> TRUE, fa |-> counted]
                 ELSE [ret |-> FALSE,
                       fa |-> [counted EXCEPT !.previous_frame = Some(current_frame)]]

\* is_duplicate_frame that retains every frame it has seen.
IsDuplicateFrameKeepSeen(fa, current_frame) ==
    LET counted == [fa EXCEPT !.frame_count = @ + 1,
                              !.previous_frame = Some(current_frame)]
    IN  IF fa.previous_frame = None
        THEN [ret |-> FALSE, fa |-> counted]
        ELSE LET similarity == CalculateSsim(Val(fa.previous_frame), current_frame)
             IN  [ret |-> similarity > ssim_threshold, fa |-> counted]

\* is_duplicate_frame: the returned boolean and the analyzer it leaves.
IsDuplicateFrame(fa, current_frame) ==
    LET counted == [fa EXCEPT !.frame_count = @ + 1]
    IN  IF fa.previous_frame = None
        THEN [ret |-> FALSE,
              fa |-> [counted EXCEPT !.previous_frame = Some(current_frame)]]
        ELSE LET similarity == CalculateSsim(Val(fa.previous_frame), current_frame)
                 is_duplicate == similarity > ssim_threshold
             IN  IF is_duplicate
                 THEN [ret |-> TRUE, fa |-> counted]
                 ELSE [ret |-> FALSE,
                       fa |-> [counted EXCEPT !.previous_frame = Some(current_frame)]]

\* should_process_frame without the black screen test.
ShouldProcessFrameNoBlackTest(fa, frame, skip_mod) ==
    IF skip_mod > 1 /\ fa.frame_count % skip_mod # 0
    THEN [ret |-> <<FALSE, "frame_skipped">>, fa |-> fa]
    ELSE LET d == IsDuplicateFrame(fa, frame)
         IN  IF d.ret
             THEN [ret |-> <<FALSE, "duplicate_frame">>, fa |-> d.fa]
             ELSE [ret |-> <<TRUE, "ok">>, fa |-> d.fa]

\* should_process_frame: the returned pair and the analyzer it leaves.
ShouldProcessFrame(fa, frame, skip_mod) ==
    IF IsBlackScreen(frame)
    THEN [ret |-> <<FALSE, "black_screen">>, fa |-> fa]
    ELSE IF skip_mod > 1 /\ fa.frame_count % skip_mod # 0
    THEN [ret |-> <<FALSE, "frame_skipped">>, fa |-> fa]
    ELSE LET d == IsDuplicateFrame(fa, frame)
         IN  IF d.ret
             THEN [ret |-> <<FALSE, "duplicate_frame">>, fa |-> d.fa]
             ELSE [ret |-> <<TRUE, "ok">>, fa |-> d.fa]

FrameAnalyzerReset(fa) == [previous_frame |-> None, frame_count |-> 0]

\* ------------------------------------------------- eye gaze tracker
threshold_seconds == EYE_GAZE_THRESHOLD * TicksPerSecond

\* _determine_gaze_direction that tests the vertical ratio first.
DetermineGazeDirectionUpFirst(result_dict) ==
    IF result_dict = None THEN "center"
    ELSE LET x_ratio == Val(result_dict).x_ratio
             y_ratio == Val(result_dict).y_ratio
         IN  IF y_ratio < 33 THEN "up"
             ELSE IF x_ratio > 300 THEN "left"
             ELSE IF x_ratio < 33 THEN "right"
             ELSE "center"

\* _determine_gaze_direction; ratios in hundredths.
DetermineGazeDirection(result_dict) ==
    IF result_dict = None THEN "center"
    ELSE LET x_ratio == Val(result_dict).x_ratio
             y_ratio == Val(result_dict).y_ratio
         IN  IF x_ratio > 300 THEN "left"
             ELSE IF x_ratio < 33 THEN "right"
             ELSE IF y_ratio < 33 THEN "up"
             ELSE "center"

\* detect_iris_position: image.left_gaze and image.right_gaze are what
\* _analyze_eye_region returns for the two eyes (None, or the two ratios,
\* even numbers of hundredths so that their mean is a whole number).
DetectIrisPosition(image) ==
    IF image.left_gaze # None /\ image.right_gaze # None
    THEN LET left_gaze == Val(image.left_gaze)
             right_gaze == Val(image.right_gaze)
             avg_x_ratio == (left_gaze.x_ratio + right_gaze.x_ratio) \div 2
             avg_y_ratio == (left_gaze.y_ratio + right_gaze.y_ratio) \div 2
             left_direction == DetermineGazeDirection(image.left_gaze)
             right_direction == DetermineGazeDirection(image.right_gaze)
             direction ==
                 IF left_direction = right_direction /\ left_direction # "center"
                 THEN left_direction
                 ELSE DetermineGazeDirection(
                          Some([x_ratio |-> avg_x_ratio, y_ratio |-> avg_y_ratio]))
         IN  Some([x_ratio |-> avg_x_ratio, y_ratio |-> avg_y_ratio,
                   direction |-> direction,
                   looking_away |-> direction # "center"])
    ELSE None

LessEq(a, b) == a <= b

\* np.median of a non-empty sequence of even integers.
Median(xs) ==
    LET sorted == SortSeq(xs, LessEq)
        n == Len(xs)
    IN  IF n % 2 = 1 THEN sorted[(n + 1) \div 2]
        ELSE (sorted[n \div 2] + sorted[n \div 2 + 1]) \div 2

\* calibrate that completes one sample early.
CalibrateEarly(et, pitch, yaw, roll) ==
    IF Len(et.calibration_frames) < calibration_frame_count
    THEN LET frames == Append(et.calibration_frames, <<pitch, yaw, roll>>)
         IN  IF Len(frames) = calibration_frame_count - 1
             THEN [et EXCEPT
                      !.calibration_frames = frames,
                      !.neutral_pitch = Median([i \in 1..Len(frames) |-> frames[i][1]]),
                      !.neutral_yaw = Median([i \in 1..Len(frames) |-> frames[i][2]]),
                      !.neutral_roll = Median([i \in 1..Len(frames) |-> frames[i][3]]),
                      !.is_calibrated = TRUE]
             ELSE [et EXCEPT !.calibration_frames = frames]
    ELSE et

\* calibrate: the tracker it leaves.
Calibrate(et, pitch, yaw, roll) ==
    IF Len(et.calibration_frames) < calibration_frame_count
    THEN LET frames == Append(et.calibration_frames, <<pitch, yaw, roll>>)
         IN  IF Len(frames) = calibration_frame_count
             THEN [et EXCEPT
                      !.calibration_frames = frames,
                      !.neutral_pitch = Median([i \in 1..Len(frames) |-> frames[i][1]]),
                      !.neutral_yaw = Median([i \in 1..Len(frames) |-> frames[i][2]]),
                      !.neutral_roll = Median([i \in 1..Len(frames) |-> frames[i][3]]),
                      !.is_calibrated = TRUE]
             ELSE [et EXCEPT !.calibration_frames = frames]
    ELSE et

\* is_looking_away that tests the pitch before the yaw.
IsLookingAwayPitchFirst(et, pitch, yaw, roll) ==
    LET pitch_diff == IF et.is_calibrated THEN pitch - et.neutral_pitch ELSE pitch
        yaw_diff == IF et.is_calibrated THEN yaw - et.neutral_yaw ELSE yaw
    IN  IF Abs(pitch_diff) > HEAD_ROTATION_THRESHOLD
        THEN <<TRUE, IF pitch_diff > 0 THEN "down" ELSE "up">>
        ELSE IF Abs(yaw_diff) > HEAD_ROTATION_THRESHOLD
        THEN <<TRUE, IF yaw_diff < 0 THEN "left" ELSE "right">>
        ELSE <<FALSE, "center">>

\* is_looking_away that subtracts the stored baseline whether or not the
\* tracker is calibrated.
IsLookingAwayStaleBaseline(et, pitch, yaw, roll) ==
    LET pitch_diff == pitch - et.neutral_pitch
        yaw_diff == yaw - et.neutral_yaw
    IN  IF Abs(yaw_diff) > HEAD_ROTATION_THRESHOLD
        THEN <<TRUE, IF yaw_diff < 0 THEN "left" ELSE "right">>
        ELSE IF Abs(pitch_diff) > HEAD_ROTATION_THRESHOLD
        THEN <<TRUE, IF pitch_diff > 0 THEN "down" ELSE "up">>
        ELSE <<FALSE, "center">>

\* is_looking_away: the pair (is_looking_away, direction).
IsLookingAway(et, pitch, yaw, roll) ==
    LET pitch_diff == IF et.is_calibrated THEN pitch - et.neutral_pitch ELSE pitch
        yaw_diff == IF et.is_calibrated THEN yaw - et.neutral_yaw ELSE yaw
    IN  IF Abs(yaw_diff) > HEAD_ROTATION_THRESHOLD
        THEN <<TRUE, IF yaw_diff < 0 THEN "left" ELSE "right">>
        ELSE IF Abs(pitch_diff) > HEAD_ROTATION_THRESHOLD
        THEN <<TRUE, IF pitch_diff > 0 THEN "down" ELSE "up">>
        ELSE <<FALSE, "center">>

\* track_gaze in which a head pose, when there is one, always overrides the
\* iris estimate.
TrackGazePoseOverrides(et, image, current_time) ==
    IF ~image.mesh
    THEN [ret |-> [face_detected |-> FALSE, looking_away |-> FALSE,
                   gaze_direction |-> "unknown", violation |-> FALSE,
                   duration |-> 0, pitch |-> 0, yaw |-> 0, roll |-> 0,
                   total_away_time |-> None],
          et |-> et]
    ELSE
    LET iris_result == DetectIrisPosition(image)
        pose_result == image.pose
        pitch == IF pose_result # None THEN Val(pose_result)[1] ELSE 0
        yaw == IF pose_result # None THEN Val(pose_result)[2] ELSE 0
        roll == IF pose_result # None THEN Val(pose_result)[3] ELSE 0
        et1 == IF pose_result # None /\ ~et.is_calibrated
               THEN Calibrate(et, pitch, yaw, roll) ELSE et
        head == IF pose_result # None
                THEN IsLookingAway(et1, pitch, yaw, roll) ELSE <<FALSE, "center">>
        use_head == pose_result # None
        looking_away == IF use_head THEN head[1]
                        ELSE IF iris_result # None THEN Val(iris_result).looking_away
                        ELSE FALSE
        gaze_direction == IF use_head THEN head[2]
                          ELSE IF iris_result # None THEN Val(iris_result).direction
                          ELSE "center"
        start == IF looking_away
                 THEN (IF et1.looking_away_start = None
                       THEN Some(current_time) ELSE et1.looking_away_start)
                 ELSE None
        duration == IF looking_away THEN current_time - Val(start) ELSE 0
        total == IF ~looking_away /\ et1.looking_away_start # None
                 THEN et1.total_looking_away_time
                      + (current_time - Val(et1.looking_away_start))
                 ELSE et1.total_looking_away_time
        violation == duration > threshold_seconds
    IN  [ret |-> [face_detected |-> TRUE, looking_away |-> looking_away,
                  gaze_direction |-> gaze_direction, violation |-> violation,
                  duration |-> duration, pitch |-> pitch, yaw |-> yaw, roll |-> roll,
                  total_away_time |-> Some(total)],
         et |-> [et1 EXCEPT !.looking_away_start = start,
                            !.total_looking_away_time = total]]

\* track_gaze that restarts the away interval on every looking-away frame.
TrackGazeRestart(et, image, current_time) ==
    IF ~image.mesh
    THEN [ret |-> [face_detected |-> FALSE, looking_away |-> FALSE,
                   gaze_direction |-> "unknown", violation |-> FALSE,
                   duration |-> 0, pitch |-> 0, yaw |-> 0, roll |-> 0,
                   total_away_time |-> None],
          et |-> et]
    ELSE
    LET iris_result == DetectIrisPosition(image)
        pose_result == image.pose
        pitch == IF pose_result # None THEN Val(pose_result)[1] ELSE 0
        yaw == IF pose_result # None THEN Val(pose_result)[2] ELSE 0
        roll == IF pose_result # None THEN Val(pose_result)[3] ELSE 0
        et1 == IF pose_result # None /\ ~et.is_calibrated
               THEN Calibrate(et, pitch, yaw, roll) ELSE et
        head == IF pose_result # None
                THEN IsLookingAway(et1, pitch, yaw, roll) ELSE <<FALSE, "center">>
        use_head == pose_result # None /\ (iris_result = None \/ head[1])
        looking_away == IF use_head THEN head[1]
                        ELSE IF iris_result # None THEN Val(iris_result).looking_away
                        ELSE FALSE
        gaze_direction == IF use_head THEN head[2]
                          ELSE IF iris_result # None THEN Val(iris_result).direction
                          ELSE "center"
        start == IF looking_away THEN Some(current_time) ELSE None
        duration == IF looking_away THEN current_time - Val(start) ELSE 0
        total == IF ~looking_away /\ et1.looking_away_start # None
                 THEN et1.total_looking_away_time
                      + (current_time - Val(et1.looking_away_start))
                 ELSE et1.total_looking_away_time
        violation == duration > threshold_seconds
    IN  [ret |-> [face_detected |-> TRUE, looking_away |-> looking_away,
                  gaze_direction |-> gaze_direction, violation |-> violation,
                  duration |-> duration, pitch |-> pitch, yaw |-> yaw, roll |-> roll,
                  total_away_time |-> Some(total)],
         et |-> [et1 EXCEPT !.looking_away_start = start,
                            !.total_looking_away_time = total]]

\* track_gaze that reports a violation from the threshold on.
TrackGazeAtThreshold(et, image, current_time) ==
    IF ~image.mesh
    THEN [ret |-> [face_detected |-> FALSE, looking_away |-> FALSE,
                   gaze_direction |-> "unknown", violation |-> FALSE,
                   duration |-> 0, pitch |-> 0, yaw |-> 0, roll |-> 0,
                   total_away_time |-> None],
          et |-> et]
    ELSE
    LET iris_result == DetectIrisPosition(image)
        pose_result == image.pose
        pitch == IF pose_result # None THEN Val(pose_result)[1] ELSE 0
        yaw == IF pose_result # None THEN Val(pose_result)[2] ELSE 0
        roll == IF pose_result # None THEN Val(pose_result)[3] ELSE 0
        et1 == IF pose_result # None /\ ~et.is_calibrated
               THEN Calibrate(et, pitch, yaw, roll) ELSE et
        head == IF pose_result # None
                THEN IsLookingAway(et1, pitch, yaw, roll) ELSE <<FALSE, "center">>
        use_head == pose_result # None /\ (iris_result = None \/ head[1])
        looking_away == IF use_head THEN head[1]
                        ELSE IF iris_result # None THEN Val(iris_result).looking_away
                        ELSE FALSE
        gaze_direction == IF use_head THEN head[2]
                          ELSE IF iris_result # None THEN Val(iris_result).direction
                          ELSE "center"
        start == IF looking_away
                 THEN (IF et1.looking_away_start = None
                       THEN Some(current_time) ELSE et1.looking_away_start)
                 ELSE None
        duration == IF looking_away THEN current_time - Val(start) ELSE 0
        total == IF ~looking_away /\ et1.looking_away_start # None
                 THEN et1.total_looking_away_time
                      + (current_time - Val(et1.looking_away_start))
                 ELSE et1.total_looking_away_time
        violation == duration >= threshold_seconds
    IN  [ret |-> [face_detected |-> TRUE, looking_away |-> looking_away,
                  gaze_direction |-> gaze_direction, violation |-> violation,
                  duration |-> duration, pitch |-> pitch, yaw |-> yaw, roll |-> roll,
                  total_away_time |-> Some(total)],
         et |-> [et1 EXCEPT !.looking_away_start = start,
                            !.total_looking_away_time = total]]

\* track_gaze in which a frame without face landmarks moves the start of a
\* running away interval to its own time.
TrackGazeGapRestarts(et, image, current_time) ==
    IF ~image.mesh
    THEN [ret |-> [face_detected |-> FALSE, looking_away |-> FALSE,
                   gaze_direction |-> "unknown", violation |-> FALSE,
                   duration |-> 0, pitch |-> 0, yaw |-> 0, roll |-> 0,
                   total_away_time |-> None],
          et |-> IF et.looking_away_start # None
                 THEN [et EXCEPT !.looking_away_start = Some(current_time)]
                 ELSE et]
    ELSE
    LET iris_result == DetectIrisPosition(image)
        pose_result == image.pose
        pitch == IF pose_result # None THEN Val(pose_result)[1] ELSE 0
        yaw == IF pose_result # None THEN Val(pose_result)[2] ELSE 0
        roll == IF pose_result # None THEN Val(pose_result)[3] ELSE 0
        et1 == IF pose_result # None /\ ~et.is_calibrated
               THEN Calibrate(et, pitch, yaw, roll) ELSE et
        head == IF pose_result # None
                THEN IsLookingAway(et1, pitch, yaw, roll) ELSE <<FALSE, "center">>
        use_head == pose_result # None /\ (iris_result = None \/ head[1])
        looking_away == IF use_head THEN head[1]
                        ELSE IF iris_result # None THEN Val(iris_result).looking_away
                        ELSE FALSE
        gaze_direction == IF use_head THEN head[2]
                          ELSE IF iris_result # None THEN Val(iris_result).direction
                          ELSE "center"
        start == IF looking_away
                 THEN (IF et1.looking_away_start = None
                       THEN Some(current_time) ELSE et1.looking_away_start)
                 ELSE None
        duration == IF looking_away THEN current_time - Val(start) ELSE 0
        total == IF ~looking_away /\ et1.looking_away_start # None
                 THEN et1.total_looking_away_time
                      + (current_time - Val(et1.looking_away_start))
                 ELSE et1.total_looking_away_time
        violation == duration > threshold_seconds
    IN  [ret |-> [face_detected |-> TRUE, looking_away |-> looking_away,
                  gaze_direction |-> gaze_direction, violation |-> violation,
                  duration |-> duration, pitch |-> pitch, yaw |-> yaw, roll |-> roll,
                  total_away_time |-> Some(total)],
         et |-> [et1 EXCEPT !.looking_away_start = start,
                            !.total_looking_away_time = total]]

\* track_gaze in which a frame without face landmarks ends the away interval.
TrackGazeNoFaceEnds(et, image, current_time) ==
    IF ~image.mesh
    THEN [ret |-> [face_detected |-> FALSE, looking_away |-> FALSE,
                   gaze_direction |-> "unknown", violation |-> FALSE,
                   duration |-> 0, pitch |-> 0, yaw |-> 0, roll |-> 0,
                   total_away_time |-> None],
          et |-> [et EXCEPT !.looking_away_start = None]]
    ELSE
    LET iris_result == DetectIrisPosition(image)
        pose_result == image.pose
        pitch == IF pose_result # None THEN Val(pose_result)[1] ELSE 0
        yaw == IF pose_result # None THEN Val(pose_result)[2] ELSE 0
        roll == IF pose_result # None THEN Val(pose_result)[3] ELSE 0
        et1 == IF pose_result # None /\ ~et.is_calibrated
               THEN Calibrate(et, pitch, yaw, roll) ELSE et
        head == IF pose_result # None
                THEN IsLookingAway(et1, pitch, yaw, roll) ELSE <<FALSE, "center">>
        use_head == pose_result # None /\ (iris_result = None \/ head[1])
        looking_away == IF use_head THEN head[1]
                        ELSE IF iris_result # None THEN Val(iris_result).looking_away
                        ELSE FALSE
        gaze_direction == IF use_head THEN head[2]
                          ELSE IF iris_result # None THEN Val(iris_result).direction
                          ELSE "center"
        start == IF looking_away
                 THEN (IF et1.looking_away_start = None
                       THEN Some(current_time) ELSE et1.looking_away_start)
                 ELSE None
        duration == IF looking_away THEN current_time - Val(start) ELSE 0
        total == IF ~looking_away /\ et1.looking_away_start # None
                 THEN et1.total_looking_away_time
                      + (current_time - Val(et1.looking_away_start))
                 ELSE et1.total_looking_away_time
        violation == duration > threshold_seconds
    IN  [ret |-> [face_detected |-> TRUE, looking_away |-> looking_away,
                  gaze_direction |-> gaze_direction, violation |-> violation,
                  duration |-> duration, pitch |-> pitch, yaw |-> yaw, roll |-> roll,
                  total_away_time |-> Some(total)],
         et |-> [et1 EXCEPT !.looking_away_start = start,
                            !.total_looking_away_time = total]]

\* track_gaze that never takes the head-pose verdict.
TrackGazeIrisOnly(et, image, current_time) ==
    IF ~image.mesh
    THEN [ret |-> [face_detected |-> FALSE, looking_away |-> FALSE,
                   gaze_direction |-> "unknown", violation |-> FALSE,
                   duration |-> 0, pitch |-> 0, yaw |-> 0, roll |-> 0,
                   total_away_time |-> None],
          et |-> et]
    ELSE
    LET iris_result == DetectIrisPosition(image)
        pose_result == image.pose
        pitch == IF pose_result # None THEN Val(pose_result)[1] ELSE 0
        yaw == IF pose_result # None THEN Val(pose_result)[2] ELSE 0
        roll == IF pose_result # None THEN Val(pose_result)[3] ELSE 0
        et1 == IF pose_result # None /\ ~et.is_calibrated
               THEN Calibrate(et, pitch, yaw, roll) ELSE et
        head == IF pose_result # None
                THEN IsLookingAway(et1, pitch, yaw, roll) ELSE <<FALSE, "center">>
        use_head == FALSE
        looking_away == IF use_head THEN head[1]
                        ELSE IF iris_result # None THEN Val(iris_result).looking_away
                        ELSE FALSE
        gaze_direction == IF use_head THEN head[2]
                          ELSE IF iris_result # None THEN Val(iris_result).direction
                          ELSE "center"
        start == IF looking_away
                 THEN (IF et1.looking_away_start = None
                       THEN Some(current_time) ELSE et1.looking_away_start)
                 ELSE None
        duration == IF looking_away THEN current_time - Val(start) ELSE 0
        total == IF ~looking_away /\ et1.looking_away_start # None
                 THEN et1.total_looking_away_time
                      + (current_time - Val(et1.looking_away_start))
                 ELSE et1.total_looking_away_time
        violation == duration > threshold_seconds
    IN  [ret |-> [face_detected |-> TRUE, looking_away |-> looking_away,
                  gaze_direction |-> gaze_direction, violation |-> violation,
                  duration |-> duration, pitch |-> pitch, yaw |-> yaw, roll |-> roll,
                  total_away_time |-> Some(total)],
         et |-> [et1 EXCEPT !.looking_away_start = start,
                            !.total_looking_away_time = total]]

\* track_gaze at time current_time: the returned dictionary and the tracker
\* it leaves.  image.mesh: the face mesh finds landmarks; image.pose: what
\* estimate_head_pose returns (None, or pitch, yaw, roll in even degrees).
TrackGaze(et, image, current_time) ==
    IF ~image.mesh
    THEN [ret |-> [face_detected |-> FALSE, looking_away |-> FALSE,
                   gaze_direction |-> "unknown", violation |-> FALSE,
                   duration |-> 0, pitch |-> 0, yaw |-> 0, roll |-> 0,
                   total_away_time |-> None],
          et |-> et]
    ELSE
    LET iris_result == DetectIrisPosition(image)
        pose_result == image.pose
        pitch == IF pose_result # None THEN Val(pose_result)[1] ELSE 0
        yaw == IF pose_result # None THEN Val(pose_result)[2] ELSE 0
        roll == IF pose_result # None THEN Val(pose_result)[3] ELSE 0
        et1 == IF pose_result # None /\ ~et.is_calibrated
               THEN Calibrate(et, pitch, yaw, roll) ELSE et
        head == IF pose_result # None
                THEN IsLookingAway(et1, pitch, yaw, roll) ELSE <<FALSE, "center">>
        use_head == pose_result # None /\ (iris_result = None \/ head[1])
        looking_away == IF use_head THEN head[1]
                        ELSE IF iris_result # None THEN Val(iris_result).looking_away
                        ELSE FALSE
        gaze_direction == IF use_head THEN head[2]
                          ELSE IF iris_result # None THEN Val(iris_result).direction
                          ELSE "center"
        start == IF looking_away
                 THEN (IF et1.looking_away_start = None
                       THEN Some(current_time) ELSE et1.looking_away_start)
                 ELSE None
        duration == IF looking_away THEN current_time - Val(start) ELSE 0
        total == IF ~looking_away /\ et1.looking_away_start # None
                 THEN et1.total_looking_away_time
                      + (current_time - Val(et1.looking_away_start))
                 ELSE et1.total_looking_away_time
        violation == duration > threshold_seconds
    IN  [ret |-> [face_detected |-> TRUE, looking_away |-> looking_away,
                  gaze_direction |-> gaze_direction, violation |-> violation,
                  duration |-> duration, pitch |-> pitch, yaw |-> yaw, roll |-> roll,
                  total_away_time |-> Some(total)],
         et |-> [et1 EXCEPT !.looking_away_start = start,
                            !.total_looking_away_time = total]]

\* A reset that keeps the calibration.
EyeTrackerResetKeepsCalibration(et) ==
    [et EXCEPT !.looking_away_start = None,
               !.total_looking_away_time = 0]

\* reset: neutral_pitch, neutral_yaw and neutral_roll are left as they are.
EyeTrackerReset(et) ==
    [et EXCEPT !.looking_away_start = None,
               !.total_looking_away_time = 0,
               !.is_calibrated = FALSE,
               !.calibration_frames = <<>>]

\* ------------------------------------------------- audio analyzer
speech_threshold == 20
sudden_change_threshold == 100
audio_history_maxlen == 50

\* analyze_audio that takes every chunk with speech as the new baseline.
AnalyzeAudioRebase(aa, chunk) ==
    LET energy == chunk.energy
        has_speech == energy > speech_threshold
        baseline == IF has_speech THEN Some(energy) ELSE aa.baseline_energy
        appended == Append(aa.audio_history,
                           [energy |-> energy, has_speech |-> has_speech])
        history == IF Len(appended) > audio_history_maxlen
                   THEN Tail(appended) ELSE appended
        \* energy > baseline * 2.5
        spike == baseline # None /\ Val(baseline) # 0
                 /\ 2 * energy > 5 * Val(baseline)
        count == IF spike THEN aa.anomaly_count + 1 ELSE aa.anomaly_count
        sudden == Len(history) > 1
                  /\ Abs(energy - history[Len(history) - 1].energy)
                         > sudden_change_threshold
                  /\ has_speech
        anomaly_detected == spike \/ sudden
        anomaly_type == IF sudden THEN Some("sudden_change")
                        ELSE IF spike THEN Some("high_energy_spike") ELSE None
        violation == count > 3 /\ anomaly_detected
    IN  [ret |-> [energy |-> energy, has_speech |-> has_speech,
                  anomaly_detected |-> anomaly_detected,
                  anomaly_type |-> anomaly_type, anomaly_count |-> count,
                  violation |-> violation, baseline_energy |-> baseline],
         aa |-> [audio_history |-> history, baseline_energy |-> baseline,
                 anomaly_count |-> count]]

\* analyze_audio that reports a violation on the count alone.
AnalyzeAudioStale(aa, chunk) ==
    LET energy == chunk.energy
        has_speech == energy > speech_threshold
        baseline == IF aa.baseline_energy = None /\ has_speech
                    THEN Some(energy) ELSE aa.baseline_energy
        appended == Append(aa.audio_history,
                           [energy |-> energy, has_speech |-> has_speech])
        history == IF Len(appended) > audio_history_maxlen
                   THEN Tail(appended) ELSE appended
        \* energy > baseline * 2.5
        spike == baseline # None /\ Val(baseline) # 0
                 /\ 2 * energy > 5 * Val(baseline)
        count == IF spike THEN aa.anomaly_count + 1 ELSE aa.anomaly_count
        sudden == Len(history) > 1
                  /\ Abs(energy - history[Len(history) - 1].energy)
                         > sudden_change_threshold
                  /\ has_speech
        anomaly_detected == spike \/ sudden
        anomaly_type == IF sudden THEN Some("sudden_change")
                        ELSE IF spike THEN Some("high_energy_spike") ELSE None
        violation == count > 3
    IN  [ret |-> [energy |-> energy, has_speech |-> has_speech,
                  anomaly_detected |-> anomaly_detected,
                  anomaly_type |-> anomaly_type, anomaly_count |-> count,
                  violation |-> violation, baseline_energy |-> baseline],
         aa |-> [audio_history |-> history, baseline_energy |-> baseline,
                 anomaly_count |-> count]]

\* analyze_audio on a chunk of RMS energy chunk.energy (thousandths): the
\* returned dictionary and the analyzer it leaves.  The history keeps each
\* chunk's energy and has_speech; its zcr and timestamp are never read, nor
\* is last_anomaly_time, and they are left out.
AnalyzeAudio(aa, chunk) ==
    LET energy == chunk.energy
        has_speech == energy > speech_threshold
        baseline == IF aa.baseline_energy = None /\ has_speech
                    THEN Some(energy) ELSE aa.baseline_energy
        appended == Append(aa.audio_history,
                           [energy |-> energy, has_speech |-> has_speech])
        history == IF Len(appended) > audio_history_maxlen
                   THEN Tail(appended) ELSE appended
        \* energy > baseline * 2.5
        spike == baseline # None /\ Val(baseline) # 0
                 /\ 2 * energy > 5 * Val(baseline)
        count == IF spike THEN aa.anomaly_count + 1 ELSE aa.anomaly_count
        sudden == Len(history) > 1
                  /\ Abs(energy - history[Len(history) - 1].energy)
                         > sudden_change_threshold
                  /\ has_speech
        anomaly_detected == spike \/ sudden
        anomaly_type == IF sudden THEN Some("sudden_change")
                        ELSE IF spike THEN Some("high_energy_spike") ELSE None
        violation == count > 3 /\ anomaly_detected
    IN  [ret |-> [energy |-> energy, has_speech |-> has_speech,
                  anomaly_detected |-> anomaly_detected,
                  anomaly_type |-> anomaly_type, anomaly_count |-> count,
                  violation |-> violation, baseline_energy |-> baseline],
         aa |-> [audio_history |-> history, baseline_energy |-> baseline,
                 anomaly_count |-> count]]

AudioAnalyzerReset(aa) ==
    [audio_history |-> <<>>, baseline_energy |-> None, anomaly_count |-> 0]

\* ------------------------------------------------- Gemini verifier
\* GeminiViolationVerifier.enabled, as __init__ sets it.
VerifierEnabled(cfg) == cfg.GEMINI_API_KEY /\ cfg.ENABLE_AI_VERIFICATION

\* What the Gemini API does on one call: it fails ("error": the request
\* raises), answers text that is no JSON ("unparseable"), or answers a JSON
\* object ("json") that may carry violation_confirmed, is_genuine_violation
\* and confidence; the call takes delay ticks.
NoResponse ==
    [kind |-> "none", violation_confirmed |-> None, is_genuine_violation |-> None,
     confidence |-> None, delay |-> 0]

\* _parse_gemini_response: the dictionary parsed from the response.
ParseGeminiResponse(response) ==
    IF response.kind = "json"
    THEN [violation_confirmed |-> response.violation_confirmed,
          is_genuine_violation |-> response.is_genuine_violation,
          confidence |-> response.confidence]
    ELSE [violation_confirmed |-> None,
          is_genuine_violation |-> Some(TRUE),
          confidence |-> Some(DEFAULT_CONFIDENCE)]

\* verify_multiple_persons_violation, verify_eye_tracking_violation and
\* verify_object_detection_violation: verified, confidence and the time the
\* call takes.
GeminiVerify(cfg, response) ==
    IF ~VerifierEnabled(cfg)
    THEN [verified |-> TRUE, confidence |-> 100, delay |-> 0]
    ELSE IF response.kind = "error"
    THEN [verified |-> TRUE, confidence |-> 100, delay |-> response.delay]
    ELSE LET analysis == ParseGeminiResponse(response)
         IN  [verified |->
                  IF analysis.violation_confirmed # None
                  THEN Val(analysis.violation_confirmed)
                  ELSE IF analysis.is_genuine_violation # None
                  THEN Val(analysis.is_genuine_violation)
                  ELSE TRUE,
              confidence |->
                  IF analysis.confidence # None
                  THEN Val(analysis.confidence) ELSE DEFAULT_CONFIDENCE,
              delay |-> response.delay]

\* ------------------------------------------------- detectors
\* check_multiple_faces; image.num_faces is what detect_faces counts.
CheckMultipleFaces(image, max_allowed) ==
    [violation |-> image.num_faces > max_allowed,
     num_faces |-> image.num_faces,
     max_allowed |-> max_allowed]

SeqContains(seq, x) == \E i \in 1..Len(seq) : seq[i] = x

\* check_prohibited_objects; image.objects are the class ids of the
\* monitored objects detect_objects returns.
CheckProhibitedObjects(image) ==
    [violation |-> Len(image.objects) > 0,
     has_phone |-> SeqContains(image.objects, CELL_PHONE),
     num_objects |-> Len(image.objects),
     objects |-> image.objects]

\* ------------------------------------------------- proctoring service
Lookup(f, k) == IF k \in DOMAIN f THEN Some(f[k]) ELSE None

\* The violation dictionaries process_frame and process_audio build ('data',
\* the detector's result, is in the result itself and is left out here).
Violation(type, severity, description, timestamp) ==
    [type |-> type, severity |-> severity, description |-> description,
     timestamp |-> timestamp, ai |-> None]

\* The history of admissions with one more violation that passed the
\* cooldown check, and with one more that did not.
Admitted(log, session_id, alert_type, time, outcome) ==
    LET k == <<session_id, alert_type>>
        entry == [time |-> time, outcome |-> outcome, suppressed_later |-> FALSE]
    IN  IF k \in DOMAIN log
        THEN [log EXCEPT ![k] = Append(@, entry)]
        ELSE (k :> <<entry>>) @@ log

Suppressed(log, session_id, alert_type) ==
    LET k == <<session_id, alert_type>>
    IN  IF k \in DOMAIN log
        THEN [log EXCEPT ![k][Len(log[k])].suppressed_later = TRUE]
        ELSE log

\* The verifier asked whatever the cooldown check returned.
ShouldVerifyAlways(cfg, should_alert) == cfg.ENABLE_AI_VERIFICATION

\* The verifier's answer admitting only above the threshold.
ApprovedStrict(ai_verification) ==
    /\ ai_verification.verified
    /\ ai_verification.confidence > AI_VERIFICATION_CONFIDENCE_THRESHOLD

\* process_frame, lines 145, 185 and 227: the verifier is asked.
ShouldVerify(cfg, should_alert) == should_alert /\ cfg.ENABLE_AI_VERIFICATION

\* process_frame, lines 152, 193 and 234: the verifier's answer admits the alert.
Approved(ai_verification) ==
    /\ ai_verification.verified
    /\ ai_verification.confidence >= AI_VERIFICATION_CONFIDENCE_THRESHOLD

\* The three blocks of process_frame that route a detected violation
\* through the cooldown check and, when it passes and AI verification is on,
\* through the verifier.  c carries the handler's running state.
AdmitVerified(cfg, c, session_id, violation, response) ==
    LET alert_type == violation.type
        key == CooldownKey(session_id, alert_type)
        sc == ShouldCreateAlert(c.last_alert_times, session_id, alert_type, c.now)
        should_alert == sc.ret
        checked == [call |-> "_should_create_alert", alert_type |-> alert_type,
                    current_time |-> c.now,
                    stored_before |-> Lookup(c.last_alert_times, key),
                    stored_after |-> Lookup(sc.last_alert_times, key),
                    ret |-> sc.ret]
        c1 == [c EXCEPT !.last_alert_times = sc.last_alert_times,
                        !.calls = Append(@, checked)]
    IN  IF ShouldVerify(cfg, should_alert)
        THEN LET ai_verification == GeminiVerify(cfg, response)
                 verified == [call |-> "verify", alert_type |-> alert_type,
                              current_time |-> c.now,
                              stored |-> Lookup(c1.last_alert_times, key),
                              kind |-> response.kind,
                              verified |-> ai_verification.verified,
                              confidence |-> ai_verification.confidence]
                 judged == [violation EXCEPT
                               !.ai = Some([ai_verified |-> ai_verification.verified,
                                            ai_confidence |-> ai_verification.confidence])]
                 c2 == [c1 EXCEPT !.calls = Append(@, verified),
                                  !.now = @ + ai_verification.delay]
             IN  IF Approved(ai_verification)
                 THEN [c2 EXCEPT
                          !.violations = Append(@, judged),
                          !.alerts = Append(@, CreateAlert(judged, c2.now)),
                          !.admissions = Admitted(@, session_id, alert_type,
                                                  judged.timestamp, "alert")]
                 ELSE [c2 EXCEPT
                          !.admissions = Admitted(@, session_id, alert_type,
                                                  violation.timestamp, "rejected")]
        ELSE IF should_alert
        THEN [c1 EXCEPT
                 !.violations = Append(@, violation),
                 !.alerts = Append(@, CreateAlert(violation, c1.now)),
                 !.admissions = Admitted(@, session_id, alert_type,
                                         violation.timestamp, "alert")]
        ELSE [c1 EXCEPT !.violations = Append(@, violation),
                        !.admissions = Suppressed(@, session_id, alert_type)]

\* The black_screen block of process_frame and the audio_anomaly block of
\* process_audio: the violation is appended, then the cooldown check decides
\* on the alert.
AdmitPlain(c, session_id, violation) ==
    LET alert_type == violation.type
        key == CooldownKey(session_id, alert_type)
        sc == ShouldCreateAlert(c.last_alert_times, session_id, alert_type, c.now)
        checked == [call |-> "_should_create_alert", alert_type |-> alert_type,
                    current_time |-> c.now,
                    stored_before |-> Lookup(c.last_alert_times, key),
                    stored_after |-> Lookup(sc.last_alert_times, key),
                    ret |-> sc.ret]
        c1 == [c EXCEPT !.violations = Append(@, violation),
                        !.last_alert_times = sc.last_alert_times,
                        !.calls = Append(@, checked)]
    IN  IF sc.ret
        THEN [c1 EXCEPT
                 !.alerts = Append(@, CreateAlert(violation, c1.now)),
                 !.admissions = Admitted(@, session_id, alert_type,
                                         violation.timestamp, "alert")]
        ELSE [c1 EXCEPT !.admissions = Suppressed(@, session_id, alert_type)]

\* COCO class names of the monitored objects (ObjectDetector.__init__).
ClassName(class_id) ==
    IF class_id = CELL_PHONE THEN "cell phone"
    ELSE IF class_id = BOOK THEN "book" ELSE "object"

RECURSIVE JoinNames(_)
JoinNames(ids) ==
    IF Len(ids) = 0 THEN ""
    ELSE IF Len(ids) = 1 THEN ClassName(ids[1])
    ELSE ClassName(ids[1]) \o ", " \o JoinNames(Tail(ids))

\* The running state of one process_frame or process_audio call: the result
\* under construction and the service state as the call has changed it.
StartCall(op, session_id) ==
    [op |-> op, session_id |-> session_id, timestamp |-> clock, now |-> clock,
     violations |-> <<>>, alerts |-> <<>>, calls |-> <<>>,
     face_detection |-> None, eye_tracking |-> None, object_detection |-> None,
     audio_analysis |-> None,
     status |-> "ok", frame_processed |-> TRUE, skip_reason |-> None,
     error |-> None, stop |-> FALSE,
     last_alert_times |-> last_alert_times, frame_analyzer |-> frame_analyzer,
     eye_tracker |-> eye_tracker, audio_analyzer |-> audio_analyzer,
     admissions |-> admissions]

\* The except block discarding what the call had collected.
RaisedRollsBack(c, message) ==
    [c EXCEPT !.status = "error", !.error = Some(message), !.stop = TRUE,
              !.violations = <<>>, !.alerts = <<>>,
              !.calls = Append(@, [call |-> "raise", message |-> message])]

\* The except block stopping the call without marking the result.
RaisedUnmarked(c, message) ==
    [c EXCEPT !.stop = TRUE,
              !.calls = Append(@, [call |-> "raise", message |-> message])]

\* A stage raised: the except block of process_frame / process_audio.
Raised(c, message) ==
    [c EXCEPT !.status = "error", !.error = Some(message), !.stop = TRUE,
              !.calls = Append(@, [call |-> "raise", message |-> message])]

\* The frame gate marking the result of a rejected frame without returning.
GateStageNoReturn(c, image, skip_mod) ==
    LET sp == ShouldProcessFrame(c.frame_analyzer, image, skip_mod)
        c1 == [c EXCEPT !.frame_analyzer = sp.fa,
                        !.calls = Append(@, [call |-> "should_process_frame",
                                             ret |-> sp.ret])]
    IN  IF ~sp.ret[1]
        THEN [c1 EXCEPT !.status = "skipped", !.skip_reason = Some(sp.ret[2]),
                        !.frame_processed = FALSE]
        ELSE c1

\* process_frame, lines 100-111: the frame gate.
GateStage(c, image, skip_mod) ==
    LET sp == ShouldProcessFrame(c.frame_analyzer, image, skip_mod)
        c1 == [c EXCEPT !.frame_analyzer = sp.fa,
                        !.calls = Append(@, [call |-> "should_process_frame",
                                             ret |-> sp.ret])]
    IN  IF ~sp.ret[1]
        THEN [c1 EXCEPT !.status = "skipped", !.skip_reason = Some(sp.ret[2]),
                        !.frame_processed = FALSE, !.stop = TRUE]
        ELSE c1

\* process_frame, lines 113-124: the black screen violation.
BlackScreenStage(c, image, session_id) ==
    IF c.stop \/ ~IsBlackScreen(image) THEN c
    ELSE AdmitPlain(c, session_id,
                    Violation("black_screen", "high",
                              "Camera appears to be covered or off", c.now))

\* process_frame, lines 125-162: face detection.
FaceStage(cfg, c, image, session_id, response) ==
    IF c.stop THEN c
    ELSE IF image.raises = "face" THEN Raised(c, "face detection failed")
    ELSE LET face_result == CheckMultipleFaces(image, MAX_FACES_ALLOWED)
             c1 == [c EXCEPT !.face_detection = Some(face_result)]
         IN  IF face_result.violation
             THEN AdmitVerified(cfg, c1, session_id,
                      Violation("multiple_persons", "high",
                                "Detected " \o ToString(face_result.num_faces)
                                    \o " persons", c1.now),
                      response)
             ELSE c1

\* process_frame, lines 164-205: gaze tracking.
GazeStage(cfg, c, image, session_id, response) ==
    IF c.stop \/ Val(c.face_detection).num_faces < 1 THEN c
    ELSE IF image.raises = "gaze" THEN Raised(c, "gaze tracking failed")
    ELSE LET tg == TrackGaze(c.eye_tracker, image, c.now)
             gaze_result == tg.ret
             c1 == [c EXCEPT !.eye_tracker = tg.et,
                             !.eye_tracking = Some(gaze_result),
                             !.calls = Append(@, [call |-> "track_gaze"])]
         IN  IF gaze_result.violation
             THEN AdmitVerified(cfg, c1, session_id,
                      Violation("eyes_looking_away", "medium",
                                "Eyes looking " \o gaze_result.gaze_direction
                                    \o " for " \o ToString(gaze_result.duration)
                                    \o " ticks", c1.now),
                      response)
             ELSE c1

\* process_frame, lines 207-244: object detection.
ObjectStage(cfg, c, image, session_id, response) ==
    IF c.stop THEN c
    ELSE IF image.raises = "object" THEN Raised(c, "object detection failed")
    ELSE LET object_result == CheckProhibitedObjects(image)
             c1 == [c EXCEPT !.object_detection = Some(object_result)]
             severity == IF object_result.has_phone THEN "critical" ELSE "high"
         IN  IF object_result.violation
             THEN AdmitVerified(cfg, c1, session_id,
                      Violation("prohibited_object", severity,
                                "Detected: " \o JoinNames(object_result.objects),
                                c1.now),
                      response)
             ELSE c1

\* The final status set whether or not a stage raised.
StatusStageAfterError(c) ==
    IF Len(c.violations) > 0
    THEN [c EXCEPT !.status = "violations_detected"] ELSE c

\* process_frame, lines 246-248: the final status.
StatusStage(c) ==
    IF ~c.stop /\ Len(c.violations) > 0
    THEN [c EXCEPT !.status = "violations_detected"] ELSE c

\* process_audio as a whole.
ProcessAudioRun(chunk, session_id) ==
    LET c0 == StartCall("process_audio", session_id)
    IN  IF chunk.raises
        THEN Raised(c0, "audio analysis failed")
        ELSE LET an == AnalyzeAudio(c0.audio_analyzer, chunk)
                 audio_result == an.ret
                 c1 == [c0 EXCEPT !.audio_analyzer = an.aa,
                                  !.audio_analysis = Some(audio_result)]
                 c2 == IF audio_result.violation
                       THEN AdmitPlain(c1, session_id,
                                Violation("audio_anomaly", "medium",
                                          "Audio anomaly: "
                                              \o Val(audio_result.anomaly_type),
                                          c1.now))
                       ELSE c1
             IN  StatusStage(c2)

\* The dictionary a call returns.
ResultOf(c) ==
    [op |-> c.op, timestamp |-> c.timestamp, session_id |-> c.session_id,
     violations |-> c.violations, alerts |-> c.alerts,
     face_detection |-> c.face_detection, eye_tracking |-> c.eye_tracking,
     object_detection |-> c.object_detection, audio_analysis |-> c.audio_analysis,
     status |-> c.status, frame_processed |-> c.frame_processed,
     skip_reason |-> c.skip_reason, error |-> c.error]

\* The state a call leaves.
Commit(c) ==
    /\ clock' = c.now
    /\ last_alert_times' = c.last_alert_times
    /\ frame_analyzer' = c.frame_analyzer
    /\ eye_tracker' = c.eye_tracker
    /\ audio_analyzer' = c.audio_analyzer
    /\ admissions' = c.admissions
    /\ results' = ResultOf(c)
    /\ calls' = c.calls
    /\ UNCHANGED <<settings, session_data, frame_skip_mod>>

\* ------------------------------------------------- inputs
CentreGaze == Some([x_ratio |-> 100, y_ratio |-> 100])
LeftGaze == Some([x_ratio |-> 400, y_ratio |-> 100])

\* A bright frame of one person looking at the screen.
ClearFrame(scene) ==
    [luma |-> 120, scene |-> scene, shape |-> "vga", num_faces |-> 1,
     mesh |-> TRUE, left_gaze |-> CentreGaze, right_gaze |-> CentreGaze,
     pose |-> None, objects |-> <<>>, raises |-> "none"]

TwoFacesFrame(scene) == [ClearFrame(scene) EXCEPT !.num_faces = 2]
PhoneAwayFrame(scene) ==
    [ClearFrame(scene) EXCEPT !.objects = <<CELL_PHONE>>,
                              !.left_gaze = LeftGaze, !.right_gaze = LeftGaze]
BlackFrame == [ClearFrame(0) EXCEPT !.luma = 10, !.num_faces = 0, !.mesh = FALSE]

\* Two persons, a phone in view, eyes to the left: all three detectors fire.
CrowdFrame(scene) ==
    [ClearFrame(scene) EXCEPT !.num_faces = 2, !.objects = <<CELL_PHONE>>,
                              !.left_gaze = LeftGaze, !.right_gaze = LeftGaze]

ServiceFrames ==
    {CrowdFrame(1), CrowdFrame(2), ClearFrame(3)}

Response(kind, confirmed, confidence, delay) ==
    [kind |-> kind, violation_confirmed |-> confirmed,
     is_genuine_violation |-> None, confidence |-> confidence, delay |-> delay]

ServiceResponses ==
    {Response("json", Some(TRUE), Some(AI_VERIFICATION_CONFIDENCE_THRESHOLD), 0),
     Response("json", Some(TRUE), Some(40), 0),
     Response("json", Some(FALSE), Some(100), MaxVerifyDelay)}

StreamResponses ==
    {Response("json", Some(TRUE), Some(100), MaxVerifyDelay),
     Response("json", Some(TRUE), Some(40), 0)}

ServiceChunks ==
    {[energy |-> 50, raises |-> FALSE], [energy |-> 200, raises |-> FALSE]}

\* The streams of the mixed video and audio specification: frames of two
\* persons, and a recording that starts with quiet speech and goes on loud.
StreamFrames == {TwoFacesFrame(1), TwoFacesFrame(2)}
StreamChunk(n) == [energy |-> IF n = 1 THEN 50 ELSE 200, raises |-> FALSE]

\* The streams of the two-session specification.
SharedFrames == {ClearFrame(1), PhoneAwayFrame(2)}
SharedChunks == {[energy |-> 50, raises |-> FALSE]}

\* The frames put to the frame gate on its own: two bright frames of one
\* scene, one of another scene, one smaller than the SSIM window, a black one.
GateFrames ==
    {ClearFrame(1), [ClearFrame(1) EXCEPT !.luma = 121], ClearFrame(2),
     [ClearFrame(3) EXCEPT !.shape = "tiny"], BlackFrame,
     [BlackFrame EXCEPT !.shape = "tiny"]}

\* The responses worth choosing among when the call has come to c and its
\* next stage detects a violation of type alert_type (detected): all of
\* them if the stage will call the verifier, and otherwise none.
ResponseChoices(cfg, c, session_id, alert_type, detected, responses) ==
    IF /\ ~c.stop
       /\ detected
       /\ VerifierEnabled(cfg)
       /\ ShouldCreateAlert(c.last_alert_times, session_id, alert_type, c.now).ret
    THEN responses ELSE {NoResponse}

GazeDetected(c, image) ==
    /\ ~c.stop
    /\ Val(c.face_detection).num_faces >= 1
    /\ image.raises # "gaze"
    /\ TrackGaze(c.eye_tracker, image, c.now).ret.violation

\* ------------------------------------------------- operations
\* start_time and end_time are formatted wall-clock strings that nothing
\* reads; the model keeps only that they are set.
NewSession ==
    [start_time |-> Some("isoformat"), status |-> "active", total_violations |-> 0,
     total_alerts |-> 0, frames_processed |-> 0, frames_skipped |-> 0,
     end_time |-> None]

\* ProctoringService.start_session
StartSession(session_id) ==
    /\ session_data' = (session_id :> NewSession) @@ session_data
    /\ eye_tracker' = EyeTrackerReset(eye_tracker)
    /\ audio_analyzer' = AudioAnalyzerReset(audio_analyzer)
    /\ frame_analyzer' = FrameAnalyzerReset(frame_analyzer)
    /\ results' = [op |-> "start_session", session_id |-> session_id,
                   ret |-> Some(NewSession)]
    /\ calls' = <<>>
    /\ UNCHANGED <<clock, settings, last_alert_times, frame_skip_mod,
                   admissions>>

start_session(session_id) ==
    StartSession(session_id) /\ UNCHANGED <<active_connections, handlers>>

\* ProctoringService.end_session
EndSession(session_id) ==
    /\ IF session_id \in DOMAIN session_data
       THEN LET ended == [session_data[session_id] EXCEPT
                             !.end_time = Some("isoformat"), !.status = "ended"]
            IN  /\ session_data' = [session_data EXCEPT ![session_id] = ended]
                /\ results' = [op |-> "end_session", session_id |-> session_id,
                               ret |-> Some(ended)]
       ELSE /\ session_data' = session_data
            /\ results' = [op |-> "end_session", session_id |-> session_id,
                           ret |-> None]
    /\ calls' = <<>>
    /\ UNCHANGED <<clock, settings, last_alert_times, frame_analyzer, eye_tracker,
                   audio_analyzer, frame_skip_mod, admissions>>

end_session(session_id) ==
    EndSession(session_id) /\ UNCHANGED <<active_connections, handlers>>

\* ProctoringService.process_frame on one of frames, the Gemini API
\* answering each verification with one of responses.  The handler runs as
\* one step; c1 .. c5 are its state after each of its stages.
\* max_frames bounds the frames the gate counts.
ProcessFrameCall(frames, responses, session_id, max_frames) ==
    /\ session_id \in DOMAIN session_data
    /\ frame_analyzer.frame_count < max_frames
    /\ \E image \in frames :
       \E c1 \in {GateStage(StartCall("process_frame", session_id),
                            image, frame_skip_mod)} :
       \E c2 \in {BlackScreenStage(c1, image, session_id)} :
       \E r1 \in ResponseChoices(settings, c2, session_id, "multiple_persons",
                                 image.raises # "face"
                                     /\ image.num_faces > MAX_FACES_ALLOWED,
                                 responses) :
       \E c3 \in {FaceStage(settings, c2, image, session_id, r1)} :
       \E r2 \in ResponseChoices(settings, c3, session_id, "eyes_looking_away",
                                 GazeDetected(c3, image), responses) :
       \E c4 \in {GazeStage(settings, c3, image, session_id, r2)} :
       \E r3 \in ResponseChoices(settings, c4, session_id, "prohibited_object",
                                 image.raises # "object"
                                     /\ Len(image.objects) > 0,
                                 responses) :
       \E c5 \in {StatusStage(ObjectStage(settings, c4, image, session_id, r3))} :
           c5.now <= MaxTime /\ Commit(c5)

ProcessFrameUpTo(frames, responses, session_id, max_frames) ==
    /\ ProcessFrameCall(frames, responses, session_id, max_frames)
    /\ UNCHANGED <<active_connections, handlers>>

ProcessFrameWith(frames, responses, session_id) ==
    ProcessFrameUpTo(frames, responses, session_id, MaxFrameCount)

process_frame(session_id) ==
    ProcessFrameWith(ServiceFrames, ServiceResponses, session_id)

\* ProctoringService.process_audio on one of chunks.
ProcessAudioWith(chunks, session_id) ==
    /\ session_id \in DOMAIN session_data
    /\ Len(audio_analyzer.audio_history) < MaxChunks
    /\ \E chunk \in chunks :
       \E c \in {ProcessAudioRun(chunk, session_id)} : Commit(c)
    /\ UNCHANGED <<active_connections, handlers>>

\* Time passes: one second.
Tick ==
    /\ clock + TicksPerSecond <= MaxTime
    /\ clock' = clock + TicksPerSecond
    /\ UNCHANGED <<active_connections, handlers,
                   settings, last_alert_times, session_data, frame_analyzer,
                   eye_tracker, audio_analyzer, frame_skip_mod, results, calls,
                   admissions>>

\* ------------------------------------------------- specifications
\* The state ProctoringService.__init__ leaves.
InitService ==
    /\ clock = 0
    /\ last_alert_times = [k \in {} |-> 0]
    /\ session_data = [k \in {} |-> 0]
    /\ frame_analyzer = [previous_frame |-> None, frame_count |-> 0]
    /\ eye_tracker = [looking_away_start |-> None, total_looking_away_time |-> 0,
                      neutral_pitch |-> 0, neutral_yaw |-> 0, neutral_roll |-> 0,
                      is_calibrated |-> FALSE, calibration_frames |-> <<>>]
    /\ audio_analyzer = [audio_history |-> <<>>, baseline_energy |-> None,
                         anomaly_count |-> 0]
    /\ frame_skip_mod = FRAME_SKIP_MOD
    /\ results = [op |-> "none"]
    /\ calls = <<>>
    /\ admissions = [k \in {} |-> <<>>]
    /\ active_connections = [k \in {} |-> 0]
    /\ handlers = [w \in Websockets |-> [pc |-> "idle", inbox |-> None]]

\* The service under each configuration of AI verification.
Init ==
    /\ InitService
    /\ settings \in [ENABLE_AI_VERIFICATION : BOOLEAN, GEMINI_API_KEY : BOOLEAN]

\* One session's video stream through the service.
Next ==
    \/ Tick
    \/ start_session("A")
    \/ end_session("A")
    \/ process_frame("A")

Spec == Init /\ [][Next]_vars

\* One session's video and audio streams through the service.
InitStreams ==
    /\ InitService
    /\ settings \in [ENABLE_AI_VERIFICATION : BOOLEAN, GEMINI_API_KEY : {TRUE}]

stream_frame == ProcessFrameWith(StreamFrames, StreamResponses, "A")
stream_audio ==
    ProcessAudioWith({StreamChunk(Len(audio_analyzer.audio_history) + 1)}, "A")

NextStreams ==
    \/ Tick
    \/ start_session("A")
    \/ stream_frame
    \/ stream_audio

SpecStreams == InitStreams /\ [][NextStreams]_vars

\* Two sessions on the one service at one instant, AI verification off
\* (the default of config.py).
InitSessions ==
    /\ InitService
    /\ settings = [ENABLE_AI_VERIFICATION |-> FALSE, GEMINI_API_KEY |-> FALSE]

shared_frame(session_id) == ProcessFrameWith(SharedFrames, {NoResponse}, session_id)
shared_audio(session_id) == ProcessAudioWith(SharedChunks, session_id)

NextSessions ==
    \/ \E session_id \in SessionIds : start_session(session_id)
    \/ \E session_id \in SessionIds : end_session(session_id)
    \/ \E session_id \in SessionIds : shared_frame(session_id)
    \/ \E session_id \in SessionIds : shared_audio(session_id)

SpecSessions == InitSessions /\ [][NextSessions]_vars

\* The frame analyzer on its own: should_process_frame under each stride,
\* and reset.  The result keeps the call's arguments and those of the call
\* just before it.
should_process_frame ==
    /\ frame_analyzer.frame_count < MaxFrameCount
    /\ \E frame \in GateFrames, skip_mod \in 1..MaxSkipMod :
         LET sp == ShouldProcessFrame(frame_analyzer, frame, skip_mod)
         IN  /\ frame_analyzer' = sp.fa
             /\ results' = [op |-> "should_process_frame", frame |-> frame,
                            skip_mod |-> skip_mod, ret |-> sp.ret,
                            last_call |-> IF results.op = "should_process_frame"
                                          THEN Some([frame |-> results.frame,
                                                     skip_mod |-> results.skip_mod])
                                          ELSE None]
             /\ calls' = <<>>
    /\ UNCHANGED <<active_connections, handlers,
                   clock, settings, last_alert_times, session_data, eye_tracker,
                   audio_analyzer, frame_skip_mod, admissions>>

reset ==
    /\ frame_analyzer' = FrameAnalyzerReset(frame_analyzer)
    /\ results' = [op |-> "reset"]
    /\ calls' = <<>>
    /\ UNCHANGED <<active_connections, handlers,
                   clock, settings, last_alert_times, session_data, eye_tracker,
                   audio_analyzer, frame_skip_mod, admissions>>

NextGate == should_process_frame \/ reset

SpecGate == InitSessions /\ [][NextGate]_vars

\* One stream of frames through the frame analyzer under a fixed stride:
\* calls lists, for every call of should_process_frame since the last
\* reset, the frame and the verdict.
InitFrameStream ==
    /\ clock = 0
    /\ settings = [ENABLE_AI_VERIFICATION |-> FALSE, GEMINI_API_KEY |-> FALSE]
    /\ last_alert_times = [k \in {} |-> 0]
    /\ session_data = [k \in {} |-> 0]
    /\ frame_analyzer = [previous_frame |-> None, frame_count |-> 0]
    /\ eye_tracker = [looking_away_start |-> None, total_looking_away_time |-> 0,
                      neutral_pitch |-> 0, neutral_yaw |-> 0, neutral_roll |-> 0,
                      is_calibrated |-> FALSE, calibration_frames |-> <<>>]
    /\ audio_analyzer = [audio_history |-> <<>>, baseline_energy |-> None,
                         anomaly_count |-> 0]
    /\ frame_skip_mod \in 1..MaxSkipMod
    /\ results = [op |-> "none"]
    /\ calls = <<>>
    /\ admissions = [k \in {} |-> <<>>]
    /\ active_connections = [k \in {} |-> 0]
    /\ handlers = [w \in Websockets |-> [pc |-> "idle", inbox |-> None]]

stream_should_process_frame ==
    /\ Len(calls) < MaxStream
    /\ \E frame \in GateFrames :
         \E sp \in {ShouldProcessFrame(frame_analyzer, frame, frame_skip_mod)} :
             /\ frame_analyzer' = sp.fa
             /\ results' = [op |-> "should_process_frame", frame |-> frame,
                            skip_mod |-> frame_skip_mod, ret |-> sp.ret]
             /\ calls' = Append(calls, [frame |-> frame, ret |-> sp.ret])
    /\ UNCHANGED <<active_connections, handlers,
                   clock, settings, last_alert_times, session_data, eye_tracker,
                   audio_analyzer, frame_skip_mod, admissions>>

NextFrameStream == stream_should_process_frame \/ reset

SpecFrameStream == InitFrameStream /\ [][NextFrameStream]_vars

\* The gaze tracker on its own.  A frame of the gaze stream is a face with
\* a head pose (or none) and an iris estimate (or none), or no face at all.
\* While the tracker calibrates, the subject sits straight or turned to the
\* right and, once turned, stays turned; after calibration the head also
\* bows down and rises up.
Straight == <<0, 0, 0>>
TurnedRight == <<30, 30, 2>>
BowedDown == <<30, 0, 0>>
RaisedUp == <<-30, -10, 0>>

GazeFrame(pose, iris) ==
    [ClearFrame(1) EXCEPT !.pose = pose, !.left_gaze = iris, !.right_gaze = iris]

NoFaceFrame == [ClearFrame(1) EXCEPT !.num_faces = 0, !.mesh = FALSE]

GazePoses(et) ==
    IF et.is_calibrated
    THEN {None, Some(Straight), Some(TurnedRight), Some(BowedDown), Some(RaisedUp)}
    ELSE IF /\ et.calibration_frames # <<>>
            /\ et.calibration_frames[Len(et.calibration_frames)] = TurnedRight
    THEN {None, Some(TurnedRight)}
    ELSE {None, Some(Straight), Some(TurnedRight)}

GazeFrames(et) ==
    {NoFaceFrame} \cup
    {GazeFrame(pose, iris) :
        pose \in GazePoses(et), iris \in {None, CentreGaze, LeftGaze}}

track_gaze ==
    /\ \E image \in GazeFrames(eye_tracker) :
         \E tg \in {TrackGaze(eye_tracker, image, clock)} :
             /\ eye_tracker' = tg.et
             /\ results' = [op |-> "track_gaze", image |-> image, ret |-> tg.ret,
                            was_calibrated |-> eye_tracker.is_calibrated]
    /\ calls' = <<>>
    /\ UNCHANGED <<active_connections, handlers,
                   clock, settings, last_alert_times, session_data, frame_analyzer,
                   audio_analyzer, frame_skip_mod, admissions>>

eye_tracker_reset ==
    /\ eye_tracker' = EyeTrackerReset(eye_tracker)
    /\ results' = [op |-> "eye_tracker_reset"]
    /\ calls' = <<>>
    /\ UNCHANGED <<active_connections, handlers,
                   clock, settings, last_alert_times, session_data, frame_analyzer,
                   audio_analyzer, frame_skip_mod, admissions>>

NextGaze == Tick \/ track_gaze \/ eye_tracker_reset

SpecGaze == InitSessions /\ [][NextGaze]_vars

\* One session's video through the service, AI verification off, long
\* enough for the gaze tracker to calibrate: the subject sits straight
\* and, once the tracker is calibrated, may also turn the head by 40
\* degrees (no iris estimate then); some frames show no person, and in
\* some the face detector counts a face in which the face mesh finds no
\* landmarks.  Frames of one scene are duplicates of each other.
TurnedAway == <<0, 40, 0>>

SteadyFrame(scene) == [ClearFrame(scene) EXCEPT !.pose = Some(Straight)]
AwayFrame(scene) == [GazeFrame(Some(TurnedAway), None) EXCEPT !.scene = scene]
EmptyFrame(scene) == [ClearFrame(scene) EXCEPT !.num_faces = 0, !.mesh = FALSE]
NoMeshFrame(scene) == [ClearFrame(scene) EXCEPT !.mesh = FALSE]

SessionFrames(et) ==
    {[f EXCEPT !.scene = scene] :
        f \in {SteadyFrame(1), EmptyFrame(1), NoMeshFrame(1)}
                 \cup (IF et.is_calibrated THEN {AwayFrame(1)} ELSE {}),
        scene \in {1, 2}}

session_frame(session_id) ==
    ProcessFrameUpTo(SessionFrames(eye_tracker), {NoResponse}, session_id,
                     MaxSessionFrames)

NextEndToEnd ==
    \/ Tick
    \/ start_session("A")
    \/ session_frame("A")

SpecEndToEnd == InitSessions /\ [][NextEndToEnd]_vars

\* One session's video at a frame every half second, AI verification off:
\* the subject sits straight until the tracker is calibrated and then sits
\* straight or turned by 40 degrees.
FrameInterval == TicksPerSecond \div 2

AwayStreamFrames(et) ==
    {SteadyFrame(1), SteadyFrame(2)}
        \cup (IF et.is_calibrated THEN {AwayFrame(1), AwayFrame(2)} ELSE {})

away_stream_frame(session_id) ==
    ProcessFrameUpTo(AwayStreamFrames(eye_tracker), {NoResponse}, session_id,
                     MaxAwayStream)

\* Time passes: the interval between two frames.
frame_interval ==
    /\ clock + FrameInterval <= MaxTime
    /\ clock' = clock + FrameInterval
    /\ UNCHANGED <<active_connections, handlers,
                   settings, last_alert_times, session_data, frame_analyzer,
                   eye_tracker, audio_analyzer, frame_skip_mod, results, calls,
                   admissions>>

NextAwayStream ==
    \/ frame_interval
    \/ start_session("A")
    \/ away_stream_frame("A")

SpecAwayStream == InitSessions /\ [][NextAwayStream]_vars

\* _determine_gaze_direction on its own, on ratios (hundredths) around its
\* thresholds, and on no dictionary.
RatioValues == {-100, 0, 10, 32, 33, 34, 100, 299, 300, 301, 500}

determine_gaze_direction ==
    /\ \E result_dict \in {None} \cup
                           {Some([x_ratio |-> x, y_ratio |-> y]) :
                               x \in RatioValues, y \in RatioValues} :
         results' = [op |-> "_determine_gaze_direction",
                     result_dict |-> result_dict,
                     ret |-> DetermineGazeDirection(result_dict)]
    /\ calls' = <<>>
    /\ UNCHANGED <<active_connections, handlers,
                   clock, settings, last_alert_times, session_data, frame_analyzer,
                   eye_tracker, audio_analyzer, frame_skip_mod, admissions>>

NextDirection == determine_gaze_direction

SpecDirection == InitSessions /\ [][NextDirection]_vars

\* The audio analyzer on its own: chunks that are silent, quiet speech,
\* raised speech and loud; calls lists, for every analyze_audio call since
\* the last reset, the chunk and the returned dictionary.
AudioChunks ==
    {[energy |-> e, raises |-> FALSE] : e \in {10, 30, 100, 200}}

analyze_audio ==
    /\ Len(calls) < MaxAudioCalls
    /\ \E chunk \in AudioChunks :
         \E an \in {AnalyzeAudio(audio_analyzer, chunk)} :
             /\ audio_analyzer' = an.aa
             /\ results' = [op |-> "analyze_audio", chunk |-> chunk, ret |-> an.ret]
             /\ calls' = Append(calls, [chunk |-> chunk, ret |-> an.ret])
    /\ UNCHANGED <<active_connections, handlers,
                   clock, settings, last_alert_times, session_data, frame_analyzer,
                   eye_tracker, frame_skip_mod, admissions>>

audio_analyzer_reset ==
    /\ audio_analyzer' = AudioAnalyzerReset(audio_analyzer)
    /\ results' = [op |-> "audio_analyzer_reset"]
    /\ calls' = <<>>
    /\ UNCHANGED <<active_connections, handlers,
                   clock, settings, last_alert_times, session_data, frame_analyzer,
                   eye_tracker, frame_skip_mod, admissions>>

NextAudio == analyze_audio \/ audio_analyzer_reset

SpecAudio == InitSessions /\ [][NextAudio]_vars

\* One session's video with failing detectors, AI verification off: in
\* each frame one person or two, with or without a phone and a glance to
\* the left, and at most one of the three detector stages raises.
FaultFrames ==
    {[f EXCEPT !.raises = stage] :
        f \in {ClearFrame(1), TwoFacesFrame(2), CrowdFrame(1), CrowdFrame(2)},
        stage \in {"none", "face", "gaze", "object"}}

faulty_frame(session_id) == ProcessFrameWith(FaultFrames, {NoResponse}, session_id)

NextFaults ==
    \/ Tick
    \/ start_session("A")
    \/ faulty_frame("A")

SpecFaults == InitSessions /\ [][NextFaults]_vars

\* One session's video while the Gemini API is unreliable: a call fails,
\* answers text that is no JSON, or confirms with full confidence.
OutageResponses ==
    {Response("error", None, None, 0),
     Response("unparseable", None, None, 0),
     Response("json", Some(TRUE), Some(100), 0)}

outage_frame(session_id) == ProcessFrameWith(ServiceFrames, OutageResponses, session_id)

NextOutage ==
    \/ Tick
    \/ start_session("A")
    \/ outage_frame("A")

SpecOutage == Init /\ [][NextOutage]_vars

\* One session's video and audio with failing stages, AI verification off,
\* within one second: any detector stage may raise on a frame and the
\* analyzer on a chunk.
FaultStreamFrames ==
    {[f EXCEPT !.raises = stage] :
        f \in {ClearFrame(1), CrowdFrame(2)},
        stage \in {"none", "face", "gaze", "object"}}

FaultChunks ==
    {[energy |-> e, raises |-> r] : e \in {50, 200}, r \in BOOLEAN}

fault_stream_frame(session_id) ==
    ProcessFrameWith(FaultStreamFrames, {NoResponse}, session_id)
fault_stream_audio(session_id) == ProcessAudioWith(FaultChunks, session_id)

NextFaultStreams ==
    \/ start_session("A")
    \/ fault_stream_frame("A")
    \/ fault_stream_audio("A")

SpecFaultStreams == InitSessions /\ [][NextFaultStreams]_vars

\* One session's video with the camera covered now and then, AI
\* verification off: black frames (nobody to be seen), frames just below
\* and at the black threshold, and bright frames.
BlackScreenFrames ==
    {BlackFrame,
     [BlackFrame EXCEPT !.luma = black_threshold - 1],
     [BlackFrame EXCEPT !.luma = black_threshold, !.num_faces = 1],
     ClearFrame(1), CrowdFrame(2)}

black_screen_frame(session_id) ==
    ProcessFrameWith(BlackScreenFrames, {NoResponse}, session_id)

NextBlackScreen ==
    \/ Tick
    \/ start_session("A")
    \/ black_screen_frame("A")

SpecBlackScreen == InitSessions /\ [][NextBlackScreen]_vars

\* One session's video in which the subject turns away and leaves the
\* picture, AI verification off: the head straight or turned by 40 degrees
\* (judged by the raw angle, the tracker being far from calibrated), nobody
\* counted, or a face counted whose landmarks the mesh does not find.
GapFrames ==
    UNION {{SteadyFrame(scene), AwayFrame(scene), EmptyFrame(scene),
            NoMeshFrame(scene)} : scene \in {1, 2}}

gap_frame(session_id) ==
    ProcessFrameUpTo(GapFrames, {NoResponse}, session_id, MaxGapFrames)

NextGap ==
    \/ Tick
    \/ start_session("A")
    \/ gap_frame("A")

SpecGap == InitSessions /\ [][NextGap]_vars

\* ------------------------------------------------- websocket endpoint
\* websocket_endpoint runs as one coroutine per client on the single event
\* loop thread of the server: a coroutine gives way to the others only at
\* its awaits (accept, receive_bytes, send_json).  process_frame is an
\* ordinary call, and so is the verifier's generate_content inside it: from
\* receive_bytes returning to the await of send_json the coroutine holds the
\* thread.  pc is the coroutine's position: "idle" (no connection yet),
\* "accepting" (in manager.connect, awaiting accept), "receiving" (awaiting
\* receive_bytes), "in_process_frame" (inside process_frame), "closed".
\* inbox is the frame the client has sent and receive_bytes has not yet
\* returned, or that process_frame is working on.
LoopBlocked == \E w \in Websockets : handlers[w].pc = "in_process_frame"

SocketFrames == {TwoFacesFrame(1), TwoFacesFrame(2)}

SocketResponses ==
    {Response("json", Some(TRUE), Some(100), MaxVerifyDelay)}

\* ConnectionManager.disconnect
Disconnect(connections, session_id) ==
    [k \in DOMAIN connections \ {session_id} |-> connections[k]]

\* ConnectionManager.is_connected
IsConnected(connections, session_id) == session_id \in DOMAIN connections

\* A client opens its websocket: the endpoint starts and awaits accept.
ws_connect(w) ==
    /\ ~LoopBlocked
    /\ handlers[w].pc = "idle"
    /\ handlers' = [handlers EXCEPT ![w].pc = "accepting"]
    /\ UNCHANGED <<clock, settings, last_alert_times, session_data,
                   frame_analyzer, eye_tracker, audio_analyzer, frame_skip_mod,
                   results, calls, admissions, active_connections>>

\* accept returns: connect stores the websocket, the endpoint starts the
\* session and awaits the first frame.
ws_accepted(w) ==
    /\ ~LoopBlocked
    /\ handlers[w].pc = "accepting"
    /\ active_connections' = (HandlerSession[w] :> w) @@ active_connections
    /\ StartSession(HandlerSession[w])
    /\ handlers' = [handlers EXCEPT ![w].pc = "receiving"]

\* The client sends a frame; it waits in the socket until receive_bytes
\* returns it.
ws_client_send(w) ==
    /\ handlers[w].pc = "receiving"
    /\ handlers[w].inbox = None
    /\ \E image \in SocketFrames :
           handlers' = [handlers EXCEPT ![w].inbox = Some(image)]
    /\ UNCHANGED <<clock, settings, last_alert_times, session_data,
                   frame_analyzer, eye_tracker, audio_analyzer, frame_skip_mod,
                   results, calls, admissions, active_connections>>

\* receive_bytes can return the frame of w to its coroutine.
CanReceive(w) ==
    /\ ~LoopBlocked
    /\ handlers[w].pc = "receiving"
    /\ handlers[w].inbox # None

\* receive_bytes returns, the frame is decoded and process_frame is entered.
ws_receive(w) ==
    /\ CanReceive(w)
    /\ frame_analyzer.frame_count < MaxSocketFrames
    /\ clock + MaxVerifyDelay <= MaxTime
    /\ handlers' = [handlers EXCEPT ![w].pc = "in_process_frame"]
    /\ UNCHANGED <<clock, settings, last_alert_times, session_data,
                   frame_analyzer, eye_tracker, audio_analyzer, frame_skip_mod,
                   results, calls, admissions, active_connections>>

\* process_frame returns, the verifier having answered if it was called;
\* the result is sent and the coroutine awaits the next frame.
ws_return(w) ==
    /\ handlers[w].pc = "in_process_frame"
    /\ ProcessFrameCall({Val(handlers[w].inbox)}, SocketResponses,
                        HandlerSession[w], MaxSocketFrames)
    /\ handlers' = [handlers EXCEPT ![w] = [pc |-> "receiving", inbox |-> None]]
    /\ UNCHANGED active_connections

\* The client closes: receive_bytes raises WebSocketDisconnect, the endpoint
\* ends the session and removes the registry entry of its session id.
ws_disconnect(w) ==
    /\ ~LoopBlocked
    /\ handlers[w].pc = "receiving"
    /\ handlers[w].inbox = None
    /\ EndSession(HandlerSession[w])
    /\ active_connections' = Disconnect(active_connections, HandlerSession[w])
    /\ handlers' = [handlers EXCEPT ![w].pc = "closed"]

\* The server with AI verification on: three clients, two of them with the
\* same session id.
InitWebsocket ==
    /\ InitService
    /\ settings = [ENABLE_AI_VERIFICATION |-> TRUE, GEMINI_API_KEY |-> TRUE]

NextWebsocket ==
    \/ \E w \in Websockets : ws_connect(w)
    \/ \E w \in Websockets : ws_accepted(w)
    \/ \E w \in Websockets : ws_client_send(w)
    \/ \E w \in Websockets : ws_receive(w)
    \/ \E w \in Websockets : ws_return(w)
    \/ \E w \in Websockets : ws_disconnect(w)

SpecWebsocket == InitWebsocket /\ [][NextWebsocket]_vars

\* ------------------------------------------------- properties
\* The cooldown checks the last operation made.
CooldownChecks ==
    {calls[i] : i \in {j \in 1..Len(calls) : calls[j].call = "_should_create_alert"}}

\* C1: a call of _should_create_alert passes when no timestamp is stored for
\* (session, type), and otherwise passes iff now minus the stored timestamp
\* is at least the cooldown window; a passing call stores now, a rejected
\* call leaves the stored timestamp as it was.
C1_CooldownRule ==
    \A e \in CooldownChecks :
        /\ e.ret = (\/ e.stored_before = None
                    \/ e.current_time - Val(e.stored_before)
                           >= ALERT_COOLDOWN_SECONDS * TicksPerSecond)
        /\ e.ret => e.stored_after = Some(e.current_time)
        /\ ~e.ret => e.stored_after = e.stored_before

\* A call that passed exactly when the window had elapsed, and in the same
\* operation a call for another type that was rejected.
C1_Witness ==
    \E e, f \in CooldownChecks :
        /\ e.ret /\ e.stored_before # None
        /\ e.current_time - Val(e.stored_before)
               = ALERT_COOLDOWN_SECONDS * TicksPerSecond
        /\ ~f.ret /\ f.stored_after = f.stored_before

\* The times of the alerts emitted so far for a session id and a type, in
\* order: the timestamps the alerts carry.
AlertTimes(k) ==
    LET log == admissions[k]
    IN  [i \in {j \in 1..Len(log) : log[j].outcome = "alert"} |-> log[i].time]

HasViolation(alert_type) ==
    \E i \in 1..Len(results.violations) : results.violations[i].type = alert_type
HasAlert(alert_type) ==
    \E i \in 1..Len(results.alerts) : results.alerts[i].type = alert_type

\* The admissions of a session id and a type before the last operation.
AdmissionsBefore(session_id, alert_type) ==
    LET k == <<session_id, alert_type>>
        log == IF k \in DOMAIN admissions THEN admissions[k] ELSE <<>>
    IN  IF Len(log) > 0 /\ Len(results.alerts) > 0 /\ HasAlert(alert_type)
        THEN SubSeq(log, 1, Len(log) - 1) ELSE log

\* C3: with verification disabled, a detected violation of a type that has
\* not alerted before for the session id produces an alert; one detected
\* before the window since the type's latest alert has elapsed produces no
\* alert and is in the violations list; one detected once the window has
\* elapsed produces an alert again.
C3_FirstSecondThird ==
    (~settings.ENABLE_AI_VERIFICATION /\ results.op = "process_frame") =>
        \A e \in CooldownChecks :
            LET before == AdmissionsBefore(results.session_id, e.alert_type)
            IN  /\ HasViolation(e.alert_type)
                /\ before = <<>> => HasAlert(e.alert_type)
                /\ (before # <<>> /\ e.current_time - before[Len(before)].time
                                        < ALERT_COOLDOWN_SECONDS * TicksPerSecond)
                       => ~HasAlert(e.alert_type)
                /\ (before # <<>> /\ e.current_time - before[Len(before)].time
                                        >= ALERT_COOLDOWN_SECONDS * TicksPerSecond)
                       => HasAlert(e.alert_type)

\* A type's first violation alerted, a second was suppressed within the
\* window, and the last operation alerted for a third one after it.
C3_Witness ==
    /\ ~settings.ENABLE_AI_VERIFICATION
    /\ results.op = "process_frame"
    /\ \E k \in DOMAIN admissions :
           /\ k[1] = results.session_id
           /\ Len(admissions[k]) = 2
           /\ admissions[k][1].outcome = "alert"
           /\ admissions[k][1].suppressed_later
           /\ admissions[k][2].time = results.timestamp
           /\ HasAlert(k[2])

\* The types of the violations the detectors reported to the last
\* process_frame.
Detected ==
    {t \in FrameAlertTypes :
        \/ /\ t = "multiple_persons"
           /\ results.face_detection # None
           /\ Val(results.face_detection).violation
        \/ /\ t = "eyes_looking_away"
           /\ results.eye_tracking # None
           /\ Val(results.eye_tracking).violation
        \/ /\ t = "prohibited_object"
           /\ results.object_detection # None
           /\ Val(results.object_detection).violation}

\* C4: every violation a detector reports on a processed frame is in that
\* frame's violations list, whether or not it becomes an alert.
C4_EveryViolationListed ==
    (results.op = "process_frame" /\ results.status # "error") =>
        \A t \in Detected : HasViolation(t)

\* C5: the verifier is called for a violation only right after the cooldown
\* check for its (session, type) has passed, with verification enabled and
\* with the cooldown timestamp already set to the time of that check; a
\* violation the cooldown suppressed causes no verifier call.
C5_VerifierAfterCooldown ==
    \A i \in 1..Len(calls) :
        /\ calls[i].call = "verify" =>
               /\ settings.ENABLE_AI_VERIFICATION
               /\ i > 1
               /\ calls[i - 1].call = "_should_create_alert"
               /\ calls[i - 1].alert_type = calls[i].alert_type
               /\ calls[i - 1].ret
               /\ calls[i].stored = Some(calls[i - 1].current_time)
        /\ (calls[i].call = "_should_create_alert" /\ ~calls[i].ret) =>
               \A j \in 1..Len(calls) :
                   calls[j].call = "verify" => calls[j].alert_type # calls[i].alert_type

\* One operation called the verifier for a type whose window had elapsed
\* and did not call it for a type the cooldown suppressed.
C5_Witness ==
    \E i, j \in 1..Len(calls) :
        /\ i > 1
        /\ calls[i].call = "verify"
        /\ calls[i - 1].stored_before # None
        /\ calls[j].call = "_should_create_alert" /\ ~calls[j].ret

\* C6: once a verification was rejected for a (session, type) at the time t
\* of its cooldown check, no later violation of that type for that session
\* id leads to an alert or to a verifier call before t + cooldown.
C6_RejectionSpendsSlot ==
    \A k \in DOMAIN admissions :
        \A i, j \in 1..Len(admissions[k]) :
            (i < j /\ admissions[k][i].outcome = "rejected") =>
                admissions[k][j].time - admissions[k][i].time
                    >= ALERT_COOLDOWN_SECONDS * TicksPerSecond

\* A rejected verification, a violation suppressed in its window, and a
\* verified alert after the window.
C6_Witness ==
    \E k \in DOMAIN admissions :
        /\ Len(admissions[k]) = 2
        /\ admissions[k][1].outcome = "rejected"
        /\ admissions[k][1].suppressed_later
        /\ admissions[k][2].outcome = "alert"

\* C7: a violation of type multiple_persons, eyes_looking_away or
\* prohibited_object that passed the cooldown check becomes an alert iff
\* verification is disabled or the verifier returned verified = true with a
\* confidence of at least AI_VERIFICATION_CONFIDENCE_THRESHOLD.
C7_AdmissionRule ==
    results.op = "process_frame" =>
        \A i \in 1..Len(calls) :
            (/\ calls[i].call = "_should_create_alert"
             /\ calls[i].alert_type \in FrameAlertTypes
             /\ calls[i].ret) =>
                (HasAlert(calls[i].alert_type) <=>
                    \/ ~settings.ENABLE_AI_VERIFICATION
                    \/ /\ i < Len(calls)
                       /\ calls[i + 1].call = "verify"
                       /\ calls[i + 1].verified
                       /\ calls[i + 1].confidence
                              >= AI_VERIFICATION_CONFIDENCE_THRESHOLD)

\* The verifier confirmed with a confidence equal to the threshold and the
\* alert was emitted, while another type's verification was rejected.
C7_Witness ==
    /\ results.op = "process_frame"
    /\ \E i, j \in 1..Len(calls) :
           /\ calls[i].call = "verify" /\ calls[i].verified
           /\ calls[i].confidence = AI_VERIFICATION_CONFIDENCE_THRESHOLD
           /\ HasAlert(calls[i].alert_type)
           /\ calls[j].call = "verify" /\ ~HasAlert(calls[j].alert_type)

\* C8: while a session is active, no start_session, process_frame or
\* process_audio for another session id changes the gaze calibration, the
\* looking-away start and cumulative away time, the frame gate's retained
\* frame and frame counter, or the audio baseline and anomaly counter that
\* the session's own stream is analysed with.
C8_SessionsIsolated ==
    [][\A a, b \in SessionIds :
          (/\ a # b
           /\ a \in DOMAIN session_data
           /\ session_data[a].status = "active"
           /\ results' # results
           /\ results'.op \in {"start_session", "process_frame", "process_audio"}
           /\ results'.session_id = b)
          => /\ eye_tracker' = eye_tracker
             /\ frame_analyzer' = frame_analyzer
             /\ audio_analyzer'.baseline_energy = audio_analyzer.baseline_energy
             /\ audio_analyzer'.anomaly_count = audio_analyzer.anomaly_count]_vars

\* C9: after end_session(id) or start_session(id) no cooldown timestamp for
\* (id, any type) remains.
C9_CooldownCleared ==
    results.op \in {"start_session", "end_session"} =>
        \A t \in AlertTypes :
            CooldownKey(results.session_id, t) \notin DOMAIN last_alert_times

\* The last call of should_process_frame got the frame of the call just
\* before it.
SameFrameAgain ==
    /\ results.op = "should_process_frame"
    /\ results.last_call # None
    /\ Val(results.last_call).frame = results.frame

\* C10 as stated: the same non-black frame twice in a row yields
\* (False, duplicate_frame) on the second call, and a frame whose mean luma
\* is below the black threshold yields (False, black_screen) on every call.
C10_GateVerdicts ==
    results.op = "should_process_frame" =>
        /\ IsBlackScreen(results.frame) => results.ret = <<FALSE, "black_screen">>
        /\ (SameFrameAgain /\ ~IsBlackScreen(results.frame))
               => results.ret = <<FALSE, "duplicate_frame">>

\* C10 amended: with stride 1 on both calls and a frame SSIM can be
\* computed on, the same non-black frame twice in a row yields
\* (False, duplicate_frame) on the second call; a black frame yields
\* (False, black_screen) on every call, whatever the stride, the history
\* and the retained frame.
C10_GateVerdictsStrideOne ==
    results.op = "should_process_frame" =>
        /\ IsBlackScreen(results.frame) => results.ret = <<FALSE, "black_screen">>
        /\ (/\ SameFrameAgain
            /\ ~IsBlackScreen(results.frame)
            /\ results.skip_mod <= 1
            /\ Val(results.last_call).skip_mod <= 1
            /\ ~SsimRaises(results.frame, results.frame))
               => results.ret = <<FALSE, "duplicate_frame">>

\* The same bright frame was fed twice with stride 1 and rejected as a
\* duplicate of another, similar frame that the gate retains.
C10_Witness ==
    /\ SameFrameAgain
    /\ results.skip_mod = 1
    /\ Val(results.last_call).skip_mod = 1
    /\ results.ret = <<FALSE, "duplicate_frame">>
    /\ frame_analyzer.previous_frame # Some(results.frame)

\* C11: a call of should_process_frame changes the retained frame only when
\* it judges the incoming frame non-duplicate (verdict ok, the first frame
\* after reset included), and then the retained frame is the incoming one;
\* a frame rejected as duplicate, black or decimated leaves it unchanged, so
\* a run of duplicates is compared against the last admitted frame.
C11_RetainedFrame ==
    [][results'.op = "should_process_frame" =>
          IF results'.ret = <<TRUE, "ok">>
          THEN frame_analyzer'.previous_frame = Some(results'.frame)
          ELSE frame_analyzer'.previous_frame = frame_analyzer.previous_frame]_vars

\* In a run of duplicates: the call before the last one put a bright frame
\* to the duplicate check, the last call's frame was rejected as a
\* duplicate, and the retained frame is neither of the two.
C11_Witness ==
    /\ results.op = "should_process_frame"
    /\ results.ret = <<FALSE, "duplicate_frame">>
    /\ results.last_call # None
    /\ ~IsBlackScreen(Val(results.last_call).frame)
    /\ Val(results.last_call).skip_mod = 1
    /\ frame_analyzer.previous_frame # None
    /\ frame_analyzer.previous_frame # Some(Val(results.last_call).frame)
    /\ frame_analyzer.previous_frame # Some(results.frame)

\* C12: every call of should_process_frame increments the processed-frame
\* counter by exactly one whatever the verdict, so that after n calls since
\* reset the counter equals n.
C12_CounterCountsCalls ==
    results.op \in {"should_process_frame", "reset"} =>
        frame_analyzer.frame_count = Len(calls)

\* The stream since the last reset holds only non-black frames, each
\* dissimilar to every frame before it.
DissimilarStream ==
    \A i \in 1..Len(calls) :
        /\ ~IsBlackScreen(calls[i].frame)
        /\ \A j \in 1..(i - 1) :
               /\ calls[j].frame.scene # calls[i].frame.scene
               /\ CalculateSsim(calls[j].frame, calls[i].frame) <= ssim_threshold

\* C13: with a stride N > 1, should_process_frame answers frame_skipped for
\* exactly the frames whose ordinal index (counted from 0 since reset) is
\* no multiple of N, and the others go on to the duplicate check; so of a
\* stream of pairwise-dissimilar non-black frames one in every N is
\* admitted.
C13_Decimation ==
    (/\ results.op = "should_process_frame"
     /\ frame_skip_mod > 1
     /\ DissimilarStream) =>
        \A i \in 1..Len(calls) :
            IF (i - 1) % frame_skip_mod # 0
            THEN calls[i].ret = <<FALSE, "frame_skipped">>
            ELSE calls[i].ret = <<TRUE, "ok">>

\* A step of the gaze stream that is a call of track_gaze: the clock
\* stands still and the result is that of a track_gaze call.
TrackGazeStep == clock' = clock /\ results'.op = "track_gaze"

\* The neutral baseline of a tracker.
Baseline(et) == <<et.neutral_pitch, et.neutral_yaw, et.neutral_roll>>

\* C14: the calibration buffer never holds more than K = 10 samples and the
\* tracker is calibrated exactly when it holds K; while not calibrated each
\* track_gaze call that yields a head-pose sample adds one sample and no
\* other call adds any, so calibration completes on the K-th such frame of
\* a reset period; once calibrated, a track_gaze call leaves the tracker
\* calibrated, its buffer and its neutral baseline as they are.
C14_CalibrationOnce ==
    [][TrackGazeStep =>
          LET sample == results'.image.mesh /\ results'.image.pose # None
              before == Len(eye_tracker.calibration_frames)
              after == Len(eye_tracker'.calibration_frames)
          IN  /\ after <= calibration_frame_count
              /\ eye_tracker'.is_calibrated <=> after = calibration_frame_count
              /\ IF ~eye_tracker.is_calibrated /\ sample
                 THEN /\ after = before + 1
                      /\ eye_tracker'.calibration_frames[after]
                             = Val(results'.image.pose)
                 ELSE eye_tracker'.calibration_frames
                          = eye_tracker.calibration_frames
              /\ eye_tracker.is_calibrated =>
                     /\ eye_tracker'.is_calibrated
                     /\ Baseline(eye_tracker') = Baseline(eye_tracker)]_vars

\* A calibrated tracker has tracked a frame whose head pose is not the
\* baseline, and the baseline is the median of the K samples, which are
\* not all alike.
C14_Witness ==
    /\ results.op = "track_gaze"
    /\ results.was_calibrated
    /\ eye_tracker.is_calibrated
    /\ results.image.mesh
    /\ results.image.pose # None
    /\ results.image.pose # Some(Baseline(eye_tracker))
    /\ Len(eye_tracker.calibration_frames) = calibration_frame_count
    /\ eye_tracker.calibration_frames[1]
           # eye_tracker.calibration_frames[calibration_frame_count]

\* The last call of track_gaze found a face with a head pose and no iris
\* estimate.
PoseOnly ==
    /\ results.op = "track_gaze"
    /\ results.image.mesh
    /\ results.image.pose # None
    /\ DetectIrisPosition(results.image) = None

\* All K samples of the calibration buffer are the sample s.
CalibratedOn(s) ==
    /\ eye_tracker.is_calibrated
    /\ \A i \in 1..Len(eye_tracker.calibration_frames) :
           eye_tracker.calibration_frames[i] = s

\* C15: after K identical head-pose samples (p, y, r) the tracker is
\* calibrated with baseline exactly (p, y, r); a sample tracked by a
\* calibrated tracker is looking-away iff its yaw deviates from the
\* baseline by more than 25 (left for a negative deviation, right for a
\* positive one) or else its pitch does (down for a positive deviation, up
\* for a negative one), the yaw taking precedence; so a sample with
\* yaw = y + 30 and no iris estimate reports looking_away on that frame.
C15_BaselineAndDeviation ==
    /\ \A s \in {Straight, TurnedRight} :
           CalibratedOn(s) => Baseline(eye_tracker) = s
    /\ (PoseOnly /\ eye_tracker.is_calibrated) =>
           LET yaw_dev == results.ret.yaw - eye_tracker.neutral_yaw
               pitch_dev == results.ret.pitch - eye_tracker.neutral_pitch
               verdict == <<results.ret.looking_away, results.ret.gaze_direction>>
           IN  /\ results.ret.looking_away <=>
                      \/ Abs(yaw_dev) > HEAD_ROTATION_THRESHOLD
                      \/ Abs(pitch_dev) > HEAD_ROTATION_THRESHOLD
               /\ Abs(yaw_dev) > HEAD_ROTATION_THRESHOLD =>
                      verdict = <<TRUE, IF yaw_dev < 0 THEN "left" ELSE "right">>
               /\ (/\ Abs(yaw_dev) <= HEAD_ROTATION_THRESHOLD
                   /\ Abs(pitch_dev) > HEAD_ROTATION_THRESHOLD) =>
                      verdict = <<TRUE, IF pitch_dev > 0 THEN "down" ELSE "up">>
               /\ yaw_dev = 30 => results.ret.looking_away

\* Calibrated on K identical samples, the tracker got, as its next frame
\* with a pose, one with the yaw 30 beyond the baseline's, the pitch also
\* beyond the threshold and no iris estimate, and answered looking away to
\* the right.
C15_Witness ==
    /\ PoseOnly
    /\ results.was_calibrated
    /\ CalibratedOn(Straight)
    /\ Baseline(eye_tracker) = Straight
    /\ results.ret.yaw = eye_tracker.neutral_yaw + 30
    /\ results.ret.pitch = eye_tracker.neutral_pitch + 30
    /\ results.ret.looking_away
    /\ results.ret.gaze_direction = "right"
    /\ results.ret.duration = 0

\* C16: the verdict (looking_away, direction) track_gaze reports for a
\* frame with a face is the head-pose verdict when there is a pose estimate
\* and either no iris estimate or a head pose that signals looking away;
\* otherwise the iris verdict when there is an iris estimate; and
\* (false, center) with neither.  An iris verdict of looking away is kept
\* when the head pose says center.
C16_GazeFusion ==
    (results.op = "track_gaze" /\ results.image.mesh) =>
        LET iris == DetectIrisPosition(results.image)
            pose == results.image.pose
            head == IF pose = None THEN <<FALSE, "center">>
                    ELSE IsLookingAway(eye_tracker, Val(pose)[1], Val(pose)[2],
                                       Val(pose)[3])
            verdict == <<results.ret.looking_away, results.ret.gaze_direction>>
        IN  IF pose # None /\ (iris = None \/ head[1])
            THEN verdict = head
            ELSE IF iris # None
            THEN verdict = <<Val(iris).looking_away, Val(iris).direction>>
            ELSE verdict = <<FALSE, "center">>

\* A calibrated tracker got a frame whose iris estimate is to the left and
\* whose head pose is at the baseline, and reported looking away to the
\* left.
C16_Witness ==
    /\ results.op = "track_gaze"
    /\ results.image.mesh
    /\ eye_tracker.is_calibrated
    /\ results.image.pose = Some(Baseline(eye_tracker))
    /\ DetectIrisPosition(results.image) # None
    /\ Val(DetectIrisPosition(results.image)).direction = "left"
    /\ results.ret.looking_away
    /\ results.ret.gaze_direction = "left"

\* C17: over the track_gaze calls that find a face, looking_away_start is
\* set exactly when the frame was looking away, and holds the time of the
\* change from not-away to away; on each change from away to not-away the
\* time since the start is added to total_looking_away_time and the start
\* is cleared; no other call changes the total, which therefore is the sum
\* of the completed away intervals and never decreases until reset.  A
\* call that finds no face leaves both as they are.
C17_AwayBookkeeping ==
    [][TrackGazeStep =>
          LET was == eye_tracker.looking_away_start
              now == eye_tracker'.looking_away_start
              total == eye_tracker.total_looking_away_time
              total_now == eye_tracker'.total_looking_away_time
              away == results'.ret.looking_away
          IN  IF ~results'.image.mesh
              THEN now = was /\ total_now = total
              ELSE /\ now # None <=> away
                   /\ (away /\ was = None) => now = Some(clock)
                   /\ (away /\ was # None) => now = was
                   /\ total_now = IF ~away /\ was # None
                                  THEN total + (clock - Val(was)) ELSE total
                   /\ total_now >= total]_vars

\* After an away interval that has ended and been added to the total, a
\* second one is running: the start is later than the total is long.
C17_Witness ==
    /\ results.op = "track_gaze"
    /\ results.image.mesh
    /\ results.ret.looking_away
    /\ eye_tracker.total_looking_away_time > 0
    /\ eye_tracker.looking_away_start # None
    /\ Val(eye_tracker.looking_away_start) > eye_tracker.total_looking_away_time
    /\ Val(eye_tracker.looking_away_start) < clock

\* C18: a track_gaze call that finds a face reports a violation iff its
\* fused verdict is looking away and the time since the start of the
\* current away interval is strictly greater than threshold_seconds; the
\* duration it reports is that time, and 0 for a frame that is not looking
\* away, which also clears the start, so that the threshold has to be
\* exceeded anew from the next change to away.
C18_ViolationRule ==
    [][(TrackGazeStep /\ results'.image.mesh) =>
          LET start == eye_tracker'.looking_away_start
              ret == results'.ret
          IN  IF ret.looking_away
              THEN /\ start # None
                   /\ ret.duration = clock - Val(start)
                   /\ ret.violation <=> clock - Val(start) > threshold_seconds
                   /\ eye_tracker.looking_away_start = None => ret.duration = 0
              ELSE /\ start = None
                   /\ ret.duration = 0
                   /\ ~ret.violation]_vars

\* A violation is reported in a second away interval, after one that had
\* ended.
C18_Witness ==
    /\ results.op = "track_gaze"
    /\ results.image.mesh
    /\ results.ret.violation
    /\ results.ret.duration > threshold_seconds
    /\ eye_tracker.total_looking_away_time > 0

\* C19: a frame with no face leaves the gaze state untouched.  When
\* process_frame counts zero faces it skips the gaze check: there is no
\* gaze result and the tracker is as before; when track_gaze finds no face
\* landmarks, the tracker (calibration buffer, calibrated flag, baseline,
\* looking_away_start, cumulative away time) is as before and the gaze
\* result reports face_detected, looking_away and violation false and
\* duration 0.
C19_NoFaceNoEffect ==
    [][(results'.op = "process_frame" /\ results'.face_detection # None) =>
          LET gaze == results'.eye_tracking
          IN  /\ Val(results'.face_detection).num_faces = 0 =>
                     gaze = None /\ eye_tracker' = eye_tracker
              /\ (gaze # None /\ ~Val(gaze).face_detected) =>
                     /\ eye_tracker' = eye_tracker
                     /\ ~Val(gaze).looking_away
                     /\ ~Val(gaze).violation
                     /\ Val(gaze).duration = 0]_vars

\* While an away interval of a calibrated tracker is running, a frame came
\* in which the face mesh found no landmarks: the result reports no face,
\* the interval is still running.
C19_Witness ==
    /\ results.op = "process_frame"
    /\ results.eye_tracking # None
    /\ ~Val(results.eye_tracking).face_detected
    /\ eye_tracker.is_calibrated
    /\ eye_tracker.looking_away_start # None

\* A process_frame step that feeds the first looking-away frame of a
\* session: the tracker has calibrated on K samples with yaw 0, no away
\* interval has run or is running, and the frame has a face with yaw 40
\* (the frames of this yaw carry no iris estimate).
FirstAwayStep ==
    /\ clock' = clock
    /\ results'.op = "process_frame"
    /\ results'.eye_tracking # None
    /\ Val(results'.eye_tracking).face_detected
    /\ Val(results'.eye_tracking).yaw = 40
    /\ eye_tracker.is_calibrated
    /\ \A i \in 1..Len(eye_tracker.calibration_frames) :
           eye_tracker.calibration_frames[i][2] = 0
    /\ eye_tracker.looking_away_start = None
    /\ eye_tracker.total_looking_away_time = 0

\* C20 as stated: after starting a session and feeding 10 calibration
\* frames with yaw 0, the first frame with yaw 40 and no iris estimate
\* reports looking_away with a duration above 0.
C20_FirstAwayFrame ==
    [][FirstAwayStep =>
          /\ Val(results'.eye_tracking).looking_away
          /\ Val(results'.eye_tracking).duration > 0]_vars

\* C20 amended: that frame reports looking_away with duration 0 and no
\* violation, and starts the away interval at its own time.
C20_FirstAwayFrameStarts ==
    [][FirstAwayStep =>
          /\ Val(results'.eye_tracking).looking_away
          /\ Val(results'.eye_tracking).gaze_direction = "right"
          /\ Val(results'.eye_tracking).duration = 0
          /\ ~Val(results'.eye_tracking).violation
          /\ eye_tracker'.looking_away_start = Some(clock)]_vars

\* The session's first looking-away frame has just been answered, some
\* time after the session started.
C20_Witness ==
    /\ results.op = "process_frame"
    /\ results.eye_tracking # None
    /\ Val(results.eye_tracking).yaw = 40
    /\ Val(results.eye_tracking).looking_away
    /\ Val(results.eye_tracking).duration = 0
    /\ eye_tracker.is_calibrated
    /\ eye_tracker.calibration_frames = [i \in 1..calibration_frame_count |-> Straight]
    /\ eye_tracker.looking_away_start = Some(clock)
    /\ eye_tracker.total_looking_away_time = 0
    /\ clock > 0

\* A process_frame step, AI verification off, whose frame reached the gaze
\* tracker and showed a face.
GazeFrameStep ==
    /\ clock' = clock
    /\ results'.op = "process_frame"
    /\ results'.eye_tracking # None
    /\ Val(results'.eye_tracking).face_detected

\* C21: with verification off, a frame on which the running away interval
\* is longer than EYE_GAZE_THRESHOLD reports violation = true and lists one
\* eyes_looking_away violation; it yields exactly one eyes_looking_away
\* alert if no alert of that type was given before or the cooldown window
\* since the latest has elapsed, and no alert otherwise; a frame on which
\* the interval is not longer than the threshold reports no violation and
\* yields no alert.  So, with the head kept at yaw 40 and a frame every
\* half second, the first frame beyond the threshold alerts and the
\* following ones report the violation without alert until the window has
\* elapsed.
C21_AwayStreamAlert ==
    [][GazeFrameStep =>
          LET gaze == Val(results'.eye_tracking)
              key == CooldownKey(results'.session_id, "eyes_looking_away")
              eligible == \/ key \notin DOMAIN last_alert_times
                          \/ clock - last_alert_times[key] >= alert_cooldown
          IN  IF gaze.looking_away /\ gaze.duration > threshold_seconds
              THEN /\ gaze.violation
                   /\ Len(results'.violations) = 1
                   /\ results'.violations[1].type = "eyes_looking_away"
                   /\ IF eligible
                      THEN /\ Len(results'.alerts) = 1
                           /\ results'.alerts[1].type = "eyes_looking_away"
                      ELSE results'.alerts = <<>>
              ELSE /\ ~gaze.violation
                   /\ results'.violations = <<>>
                   /\ results'.alerts = <<>>]_vars

\* With yaw 40 and a frame every half second, the first frame beyond the
\* threshold gave the alert and the frame after it, which is the one just
\* answered, reports the violation without alert.
C21_Witness ==
    /\ results.op = "process_frame"
    /\ results.eye_tracking # None
    /\ Val(results.eye_tracking).violation
    /\ Val(results.eye_tracking).yaw = 40
    /\ Val(results.eye_tracking).duration = threshold_seconds + 2 * FrameInterval
    /\ Len(results.violations) = 1
    /\ results.alerts = <<>>
    /\ eye_tracker.looking_away_start # None
    /\ CooldownKey("A", "eyes_looking_away") \in DOMAIN last_alert_times
    /\ last_alert_times[CooldownKey("A", "eyes_looking_away")]
           = Val(eye_tracker.looking_away_start) + threshold_seconds + FrameInterval
    /\ clock = Val(eye_tracker.looking_away_start) + threshold_seconds
                    + 2 * FrameInterval

\* C22: for every (x_ratio, y_ratio), _determine_gaze_direction answers
\* left if x_ratio > 3; otherwise right if x_ratio < 0.33; otherwise up if
\* y_ratio < 0.33; otherwise center.  So 5 is left, 0.1 is right, (1, 0.1)
\* is up, (1, 1) is center, and a horizontal verdict wins over the vertical
\* one.
C22_DirectionRule ==
    (results.op = "_determine_gaze_direction" /\ results.result_dict # None) =>
        LET x == Val(results.result_dict).x_ratio
            y == Val(results.result_dict).y_ratio
        IN  /\ x > 300 => results.ret = "left"
            /\ (x <= 300 /\ x < 33) => results.ret = "right"
            /\ (x <= 300 /\ x >= 33 /\ y < 33) => results.ret = "up"
            /\ (x <= 300 /\ x >= 33 /\ y >= 33) => results.ret = "center"
            /\ x = 500 => results.ret = "left"
            /\ x = 10 => results.ret = "right"
            /\ (x = 100 /\ y = 10) => results.ret = "up"
            /\ (x = 100 /\ y = 100) => results.ret = "center"
            /\ results.ret = "up" => (x <= 300 /\ x >= 33)

\* A ratio pair that is beyond the horizontal and the vertical threshold
\* was answered left.
C22_Witness ==
    /\ results.op = "_determine_gaze_direction"
    /\ results.result_dict = Some([x_ratio |-> 500, y_ratio |-> 10])
    /\ results.ret = "left"

\* The chunks with speech among the analyze_audio calls since the last
\* reset, by their position.
SpeechCalls == {i \in 1..Len(calls) : calls[i].ret.has_speech}

\* C23: the baseline energy is unset until the first chunk with speech of
\* a reset period and is from then on the energy of that chunk: no later
\* analyze_audio call changes it until reset.
C23_BaselineOnce ==
    results.op \in {"analyze_audio", "audio_analyzer_reset"} =>
        /\ audio_analyzer.baseline_energy =
               IF SpeechCalls = {} THEN None
               ELSE Some(calls[CHOOSE i \in SpeechCalls :
                                  \A j \in SpeechCalls : i <= j].chunk.energy)
        /\ \A i \in 1..Len(calls) :
               calls[i].ret.baseline_energy =
                   IF \A j \in SpeechCalls : j > i THEN None
                   ELSE audio_analyzer.baseline_energy

\* After a silent chunk, a chunk with speech and a later chunk with speech
\* of another energy, the baseline is the energy of the first of the two.
C23_Witness ==
    /\ results.op = "analyze_audio"
    /\ Len(calls) >= 3
    /\ ~calls[1].ret.has_speech
    /\ calls[2].ret.has_speech
    /\ results.ret.has_speech
    /\ results.chunk.energy # calls[2].chunk.energy
    /\ audio_analyzer.baseline_energy = Some(calls[2].chunk.energy)

\* C24: every chunk reported with anomaly_detected = true, be its anomaly
\* high_energy_spike or sudden_change, increments the anomaly counter, which
\* therefore equals the number of such chunks since the last reset.
C24_CounterCountsAnomalies ==
    results.op \in {"analyze_audio", "audio_analyzer_reset"} =>
        audio_analyzer.anomaly_count =
            Cardinality({i \in 1..Len(calls) : calls[i].ret.anomaly_detected})

\* C25: analyze_audio reports violation = true on a chunk iff the anomaly
\* counter after that chunk is greater than 3 and the chunk itself is
\* anomalous; a chunk that is not anomalous reports no violation however
\* high the counter.
C25_ViolationNeedsFreshAnomaly ==
    results.op = "analyze_audio" =>
        /\ results.ret.anomaly_count = audio_analyzer.anomaly_count
        /\ results.ret.violation <=>
               (audio_analyzer.anomaly_count > 3 /\ results.ret.anomaly_detected)
        /\ ~results.ret.anomaly_detected => ~results.ret.violation

\* With the counter above 3, a chunk that is not anomalous was analyzed
\* right after one that reported a violation.
C25_Witness ==
    /\ results.op = "analyze_audio"
    /\ audio_analyzer.anomaly_count > 3
    /\ ~results.ret.anomaly_detected
    /\ ~results.ret.violation
    /\ Len(calls) >= 2
    /\ calls[Len(calls) - 1].ret.violation

\* The alert is the one _create_alert derives from the violation.
DerivedFrom(alert, violation) ==
    /\ alert.type = violation.type
    /\ alert.severity = violation.severity
    /\ alert.timestamp = violation.timestamp
    /\ alert.message = violation.description
    /\ alert.requires_attention <=> violation.severity \in {"high", "critical"}

\* C26: in every result of process_frame or process_audio each alert is
\* derived from exactly one violation of the same result's violations list
\* (same type, severity and timestamp, message = description,
\* requires_attention iff the severity is high or critical), no violation
\* has more than one alert, and there are no more alerts than violations.
C26_AlertsFromViolations ==
    results.op \in {"process_frame", "process_audio"} =>
        /\ \A i \in 1..Len(results.alerts) :
               Cardinality({j \in 1..Len(results.violations) :
                               DerivedFrom(results.alerts[i], results.violations[j])})
                   = 1
        /\ \A j \in 1..Len(results.violations) :
               Cardinality({i \in 1..Len(results.alerts) :
                               DerivedFrom(results.alerts[i], results.violations[j])})
                   <= 1
        /\ Len(results.alerts) <= Len(results.violations)

\* A frame's alert that was created after the verifier had taken its time:
\* it carries the earlier timestamp of its violation.
C26_Witness ==
    /\ results.op = "process_frame"
    /\ Len(results.alerts) = 1
    /\ Len(results.violations) = 1
    /\ DerivedFrom(results.alerts[1], results.violations[1])
    /\ results.alerts[1].requires_attention
    /\ results.alerts[1].alert_id[2] > results.alerts[1].timestamp

\* The frame gate rejected the frame of the last process_frame call.
GateRejected ==
    /\ Len(calls) >= 1
    /\ calls[1].call = "should_process_frame"
    /\ ~calls[1].ret[1]

\* A stage of the last call raised.
StageRaised == \E i \in 1..Len(calls) : calls[i].call = "raise"

\* C27: the status of a process_frame result is skipped iff the frame gate
\* rejected the frame, error iff some stage raised, and for an admitted
\* frame with no stage raising violations_detected iff the violations list
\* is non-empty and ok otherwise.
C27_ResultStatus ==
    results.op = "process_frame" =>
        /\ results.status = "skipped" <=> GateRejected
        /\ results.status = "error" <=> StageRaised
        /\ (~GateRejected /\ ~StageRaised) =>
               results.status = IF results.violations # <<>>
                                THEN "violations_detected" ELSE "ok"

\* A stage raised after an earlier stage had recorded a violation: the
\* status is error.
C27_Witness ==
    /\ results.op = "process_frame"
    /\ StageRaised
    /\ ~GateRejected
    /\ results.violations # <<>>
    /\ results.status = "error"

\* A process_frame call whose frame the gate rejected.
RejectedFrameStep ==
    /\ clock' = clock
    /\ results'.op = "process_frame"
    /\ GateRejected'

\* C28: a frame rejected by the frame gate stops the pipeline: the result
\* has status skipped with the gate's reason and empty violations and
\* alerts, nothing but the gate is invoked, and gaze state and cooldown
\* table are unchanged by that frame.
C28_RejectedFrameStops ==
    [][RejectedFrameStep =>
          /\ results'.status = "skipped"
          /\ results'.skip_reason = Some(calls'[1].ret[2])
          /\ ~results'.frame_processed
          /\ results'.violations = <<>>
          /\ results'.alerts = <<>>
          /\ Len(calls') = 1
          /\ results'.face_detection = None
          /\ results'.eye_tracking = None
          /\ results'.object_detection = None
          /\ eye_tracker' = eye_tracker
          /\ last_alert_times' = last_alert_times]_vars

\* A rejected frame of a service whose cooldown table has an entry and
\* whose tracker is in an away interval.
C28_Witness ==
    /\ results.op = "process_frame"
    /\ GateRejected
    /\ results.status = "skipped"
    /\ DOMAIN last_alert_times # {}
    /\ eye_tracker.looking_away_start # None

\* C29: a detector stage that raises on a frame is treated as no detection
\* and the remaining stages still run on the same frame: after a raise of
\* the person count or of the gaze tracker the object detection has run,
\* its result is part of the frame's result and its violation is reported.
C29_DetectorsFailOpen ==
    results.op = "process_frame" =>
        \A i \in 1..Len(calls) :
            (/\ calls[i].call = "raise"
             /\ calls[i].message \in {"face detection failed",
                                       "gaze tracking failed"})
            => /\ results.object_detection # None
               /\ Val(results.object_detection).violation
                      => \E j \in 1..Len(results.violations) :
                            results.violations[j].type = "prohibited_object"

\* C30: with verification enabled and a violation that passed the cooldown
\* check, a verifier call that fails with a network error or whose response
\* cannot be parsed is treated as confirmed with confidence 1.0, and the
\* alert is emitted.
C30_VerifierFailsOpen ==
    results.op = "process_frame" =>
        \A i \in 1..Len(calls) :
            (/\ calls[i].call = "verify"
             /\ calls[i].kind \in {"error", "unparseable"})
            => /\ calls[i].verified
               /\ calls[i].confidence = 100
               /\ HasAlert(calls[i].alert_type)

\* A process_frame or process_audio call.
PipelineStep ==
    /\ clock' = clock
    /\ results'.op \in {"process_frame", "process_audio"}

\* C31: a stage that raises inside process_frame or process_audio is not
\* propagated: the call returns a result with status error and an error
\* message, the session record stays as it was (active), and a call that
\* follows an error result and in which no stage raises is answered with a
\* status other than error.
C31_ErrorsContained ==
    [][PipelineStep =>
          /\ StageRaised' =>
                 /\ results'.status = "error"
                 /\ results'.error # None
                 /\ session_data' = session_data
                 /\ "A" \in DOMAIN session_data =>
                        session_data'["A"].status = "active"
          /\ (results.op \in {"process_frame", "process_audio"}
                 /\ results.status = "error" /\ ~StageRaised') =>
                 /\ results'.status \in {"ok", "violations_detected", "skipped"}
                 /\ results'.error = None]_vars

\* An audio chunk on which the analyzer raised, answered with status error
\* in a session that is still active.
C31_Witness ==
    /\ results.op = "process_audio"
    /\ StageRaised
    /\ results.status = "error"
    /\ results.error = Some("audio analysis failed")
    /\ session_data["A"].status = "active"
    /\ frame_analyzer.frame_count > 0

\* C33: the session record's counters follow the stream: after a
\* process_frame or process_audio call for a started session, the record's
\* frames_processed, frames_skipped, total_violations and total_alerts are
\* the numbers of admitted frames, skipped frames, violations and alerts
\* produced since the start, hence at least those of the call just made.
C33_SessionCounters ==
    (/\ results.op \in {"process_frame", "process_audio"}
     /\ results.session_id \in DOMAIN session_data)
    => LET session == session_data[results.session_id]
       IN  /\ session.total_violations >= Len(results.violations)
           /\ session.total_alerts >= Len(results.alerts)
           /\ results.op = "process_frame" =>
                  /\ session.frames_processed
                         >= IF results.status = "skipped" THEN 0 ELSE 1
                  /\ session.frames_skipped
                         >= IF results.status = "skipped" THEN 1 ELSE 0

C35_RawAnglesBeforeCalibration ==
    [][(TrackGazeStep /\ PoseOnly' /\ ~results'.was_calibrated) =>
          LET pose == Val(results'.image.pose)
              before == Len(eye_tracker.calibration_frames)
              samples == eye_tracker'.calibration_frames
              K == calibration_frame_count
              pitches == [i \in 1..K |-> samples[i][1]]
              yaws == [i \in 1..K |-> samples[i][2]]
          IN  IF before < K - 1
              THEN /\ ~eye_tracker'.is_calibrated
                   /\ results'.ret.looking_away <=>
                          \/ Abs(pose[2]) > HEAD_ROTATION_THRESHOLD
                          \/ Abs(pose[1]) > HEAD_ROTATION_THRESHOLD
                   /\ results'.ret.looking_away <=>
                          eye_tracker'.looking_away_start # None
              ELSE /\ eye_tracker'.is_calibrated
                   /\ Len(samples) = K
                   /\ samples[K] = pose
                   /\ eye_tracker'.neutral_pitch = Median(pitches)
                   /\ eye_tracker'.neutral_yaw = Median(yaws)
                   /\ results'.ret.looking_away <=>
                          \/ Abs(pose[2] - Median(yaws)) > HEAD_ROTATION_THRESHOLD
                          \/ Abs(pose[1] - Median(pitches))
                                 > HEAD_ROTATION_THRESHOLD]_vars

\* A violation fired by a turned head while the tracker is still
\* calibrating, in a reset period that follows a calibration on that same
\* posture.
C35_Witness ==
    /\ PoseOnly
    /\ ~results.was_calibrated
    /\ ~eye_tracker.is_calibrated
    /\ results.ret.violation
    /\ eye_tracker.neutral_yaw = results.ret.yaw

C38_EarlierEffectsKept ==
    [][(PipelineStep /\ results'.op = "process_frame" /\ StageRaised') =>
          /\ results'.status = "error"
          /\ \A e \in CooldownChecks' :
                 /\ HasViolation(e.alert_type)'
                 /\ e.ret =>
                        /\ HasAlert(e.alert_type)'
                        /\ Lookup(last_alert_times',
                                  CooldownKey(results'.session_id, e.alert_type))
                               = Some(e.current_time)
          /\ (/\ results'.face_detection # None
              /\ Val(results'.face_detection).violation) =>
                 HasViolation("multiple_persons")'
          /\ results'.eye_tracking # None =>
                 /\ Val(results'.eye_tracking).looking_away <=>
                        eye_tracker'.looking_away_start # None
                 /\ Val(results'.eye_tracking).violation =>
                        HasViolation("eyes_looking_away")'
          /\ frame_analyzer'.previous_frame # None]_vars

\* The object detection raised on a frame for which the person count had
\* alerted and the gaze stage had started an away interval at this time.
C38_Witness ==
    /\ results.op = "process_frame"
    /\ \E i \in 1..Len(calls) :
           calls[i].call = "raise" /\ calls[i].message = "object detection failed"
    /\ results.status = "error"
    /\ HasAlert("multiple_persons")
    /\ Lookup(last_alert_times, CooldownKey("A", "multiple_persons")) = Some(clock)
    /\ eye_tracker.looking_away_start = Some(clock)

\* The last process_frame call went through face detection and found no
\* face to track: nobody was counted, or the face mesh found no landmarks.
FacelessFrame ==
    /\ results.op = "process_frame"
    /\ results.face_detection # None
    /\ \/ results.eye_tracking = None
       \/ ~Val(results.eye_tracking).face_detected

\* C39: face-less frames do not end an away interval: a frame without a
\* face leaves the start t0 of the running interval as it is, and a
\* looking-away frame that follows face-less frames at time t1 reports the
\* duration t1 - t0, the gap included, and a violation iff that duration
\* exceeds the threshold.
C39_GapCountsAsAway ==
    [][(/\ clock' = clock
        /\ results'.op = "process_frame"
        /\ eye_tracker.looking_away_start # None) =>
          /\ FacelessFrame' =>
                 eye_tracker'.looking_away_start = eye_tracker.looking_away_start
          /\ (/\ FacelessFrame
              /\ results'.eye_tracking # None
              /\ Val(results'.eye_tracking).looking_away) =>
                 LET gaze == Val(results'.eye_tracking)
                     t0 == Val(eye_tracker.looking_away_start)
                 IN  /\ gaze.duration = clock - t0
                     /\ gaze.violation <=> clock - t0 > threshold_seconds
                     /\ gaze.violation => HasViolation("eyes_looking_away")'
                     /\ eye_tracker'.looking_away_start = Some(t0)]_vars

\* A frame in which nobody is counted, while an away interval has been
\* running for longer than the threshold: the interval is still running.
C39_Witness ==
    /\ FacelessFrame
    /\ results.status # "skipped"
    /\ results.eye_tracking = None
    /\ eye_tracker.looking_away_start # None
    /\ clock - Val(eye_tracker.looking_away_start) > threshold_seconds

\* The coroutine of w is inside process_frame and the verifier call its
\* frame leads to has not returned.
VerifierPending(w) ==
    /\ handlers[w].pc = "in_process_frame"
    /\ LET image == Val(handlers[w].inbox)
           c == BlackScreenStage(
                    GateStage(StartCall("process_frame", HandlerSession[w]),
                              image, frame_skip_mod),
                    image, HandlerSession[w])
       IN  ResponseChoices(settings, c, HandlerSession[w], "multiple_persons",
                           image.num_faces > MAX_FACES_ALLOWED, SocketResponses)
               # {NoResponse}

\* C32: a pending verifier call for one session does not stall the others:
\* while the verifier call triggered by a frame of one session has not
\* returned, a frame received for another session can be taken up by that
\* session's handler.
C32_OtherSessionsNotStalled ==
    \A a, b \in Websockets :
        (/\ HandlerSession[a] # HandlerSession[b]
         /\ VerifierPending(a)
         /\ handlers[b].pc = "receiving"
         /\ handlers[b].inbox # None)
        => CanReceive(b)

\* C40: whenever a websocket handler for session id s is inside its receive
\* loop, s is connected and the registry entry of s is the handler's own
\* websocket.
C40_RegistryHoldsHandler ==
    \A w \in Websockets :
        handlers[w].pc \in {"receiving", "in_process_frame"} =>
            /\ IsConnected(active_connections, HandlerSession[w])
            /\ active_connections[HandlerSession[w]] = w

====
